---- MODULE Spec2Model ----
(***************************************************************************)
(* Model of the tax-estimator calculation core (crate tax-core):           *)
(*   calculations/common.rs           round_half_up, max                    *)
(*   calculations/worksheets/est_tax.rs  EstimatedTaxWorksheet              *)
(*   calculations/worksheets/self_emp.rs SeWorksheetConfig, SeWorksheet     *)
(*   db/factory.rs                    RepositoryRegistry                    *)
(* and of the bracket loader (crate tax-data, loader.rs) on the SQLite     *)
(* repository (crate tax-db-sqlite, repository.rs).                        *)
(*                                                                         *)
(* Decimal values.  rust_decimal::Decimal is an exact base-10 number; its  *)
(* equality and ordering are numeric.  A Decimal is modelled by the        *)
(* integer number of 1/10000 units it holds (ONE = 1.0000, CENT = 0.01),   *)
(* so addition, subtraction, comparison, min and max are the integer ones. *)
(* Every multiplication in the code has a cent-exact left operand and, in  *)
(* the model, a rate that is a multiple of 0.01, so each product lies on   *)
(* the 1/10000 grid and Mul is exact, as the Decimal product is.           *)
(***************************************************************************)
EXTENDS Integers, Sequences, FiniteSets, TLC

VARIABLES
    pc,             \* "ready" before the call of the run, "done" after it
    tax_brackets,   \* EstimatedTaxWorksheet.tax_brackets: the borrowed slice
    taxable_arg,    \* argument of a direct calculate_tax call
    tax_ret,        \* what calculate_tax returned
    input,          \* the EstimatedTaxWorksheetInput of a calculate call
    locals,         \* the let-bindings of EstimatedTaxWorksheet::calculate
    est_ret,        \* what EstimatedTaxWorksheet::calculate returned
    config,         \* SeWorksheet.config
    se_args,        \* (se_income, crp_payments, wages) of SeWorksheet::calculate
    se_ret,         \* what SeWorksheet::calculate returned
    validate_ret,   \* what SeWorksheetConfig::validate returned
    round_arg,      \* argument of a direct round_half_up call
    round_ret,      \* what round_half_up returned for round_arg
    round_again,    \* what round_half_up returned for round_ret
    factories,      \* RepositoryRegistry.factories: backend name -> factory
    registered,     \* history: the factories passed to register, in order
    reg_ret,        \* what the last RepositoryRegistry call returned
    records,        \* the records argument of TaxBracketLoader::load
    repo,           \* the repository's tables
    load_locals,    \* the let-bindings and loop positions of load
    load_ret,       \* what load returned
    faults,         \* repository calls that have failed on their own
    load_log,       \* history: the tables before the load and the first run
    calls,          \* the arguments of each concurrent calculate call
    line,           \* the line each concurrent call is at
    frames,         \* the let-bindings of each concurrent call
    rets            \* what each concurrent call returned

\* the variables of direct round_half_up calls
round_vars == <<round_arg, round_ret, round_again>>

\* the variables of the repository registry
reg_vars == <<factories, registered, reg_ret>>

\* the variables of the bracket loader
load_vars == <<records, repo, load_locals, load_ret, faults, load_log>>

\* the variables of concurrent calculate calls
conc_vars == <<calls, line, frames, rets>>

vars == <<pc, tax_brackets, taxable_arg, tax_ret, input, locals, est_ret,
          config, se_args, se_ret, validate_ret, round_vars,
          reg_vars, load_vars, conc_vars>>

----------------------------------------------------------------------------
(* Decimal representation *)

\* number of decimal places round_half_up keeps
DP == 2

\* 1.0000 and 0.01 in model units
ONE == 10 ^ (DP + 2)
CENT == ONE \div (10 ^ DP)

\* k dollars, k cents
Dollars(k) == k * ONE
Cents(k) == k * CENT

Abs(v) == IF v < 0 THEN 0 - v ELSE v
Sgn(v) == IF v < 0 THEN 0 - 1 ELSE 1

\* Decimal * Decimal
Mul(a, b) == (a * b) \div ONE
MulExact(a, b) == (a * b) % ONE = 0

IsCentExact(v) == v % CENT = 0

\* a value no call has produced yet
NONE == [tag |-> "None"]

\* no registry, no loader and no concurrent call takes part in the run
RegistryIdle == factories = NONE /\ registered = NONE /\ reg_ret = NONE
LoaderIdle ==
    /\ records = NONE /\ repo = NONE /\ load_locals = NONE
    /\ load_ret = NONE /\ faults = NONE /\ load_log = NONE
ThreadsIdle == calls = NONE /\ line = NONE /\ frames = NONE /\ rets = NONE
RoundIdle == round_arg = NONE /\ round_ret = NONE /\ round_again = NONE

----------------------------------------------------------------------------
(* calculations/common.rs *)

\* rounding that sends every midpoint towards positive infinity
round_half_up_TiesUp(value) ==
    ((value + (CENT \div 2)) \div CENT) * CENT

\* rounding to one decimal place instead of two
round_half_up_OneDecimal(value) ==
    LET a == Abs(value)
        q == a \div (10 * CENT)
        r == a % (10 * CENT)
        m == IF 2 * r >= 10 * CENT THEN q + 1 ELSE q
    IN  Sgn(value) * m * 10 * CENT

\* round_dp_with_strategy(2, MidpointAwayFromZero)
round_half_up(value) ==
    LET a == Abs(value)
        q == a \div CENT
        r == a % CENT
        m == IF 2 * r >= CENT THEN q + 1 ELSE q
    IN  Sgn(value) * m * CENT

max(a, b) == IF a > b THEN a ELSE b

\* Decimal::min (Ord::min)
min(a, b) == IF a <= b THEN a ELSE b

----------------------------------------------------------------------------
(* Option<Decimal>: <<>> is None, <<v>> is Some(v) *)

None == <<>>
Some(v) == <<v>>
is_none(o) == o = <<>>
unwrap(o) == o[1]

\* TaxBracket (tax_year and filing_status_id play no part in the lookup)
Bracket(lo, hi, rate, base) ==
    [min_income |-> lo, max_income |-> hi, tax_rate |-> rate, base_tax |-> base]

----------------------------------------------------------------------------
(* est_tax.rs: calculate_tax *)

\* a lookup that excludes both ends of a bracket
BracketMatches_UpperExclusive(b, t) ==
    /\ t > b.min_income
    /\ (is_none(b.max_income) \/ t < unwrap(b.max_income))

\* a lookup whose bounds are lower-inclusive, upper-exclusive
BracketMatches_LowerInclusive(b, t) ==
    /\ t >= b.min_income
    /\ (is_none(b.max_income) \/ t < unwrap(b.max_income))

\* the closure passed to find: lower-exclusive, upper-inclusive.  unwrap_or's
\* default is never used: the disjunction short-circuits on is_none.
BracketMatches(b, t) ==
    /\ t > b.min_income
    /\ (is_none(b.max_income) \/ t <= unwrap(b.max_income))

\* Iterator::find over the slice, from position i; 0 when nothing matches
RECURSIVE FindFrom(_, _, _)
FindFrom(brackets, t, i) ==
    IF i > Len(brackets) THEN 0
    ELSE IF BracketMatches(brackets[i], t) THEN i
    ELSE FindFrom(brackets, t, i + 1)

\* a lookup that takes the last bracket whose range holds the income
RECURSIVE FindLastFrom(_, _, _)
FindLastFrom(brackets, t, i) ==
    IF i < 1 THEN 0
    ELSE IF BracketMatches(brackets[i], t) THEN i
    ELSE FindLastFrom(brackets, t, i - 1)

FindBracket_Last(brackets, t) == FindLastFrom(brackets, t, Len(brackets))

FindBracket(brackets, t) == FindFrom(brackets, t, 1)

Ok(v) == [tag |-> "Ok", value |-> v]
NoMatchingBracket(t) == [tag |-> "NoMatchingBracket", income |-> t]
NoTaxBrackets == [tag |-> "NoTaxBrackets"]

\* a lookup that charges nothing when no bracket holds the income
calculate_tax_ZeroOnNoMatch(brackets, taxable_income) ==
    IF taxable_income <= 0 THEN [tag |-> "Ok", value |-> 0, bracket |-> 0]
    ELSE LET i == FindBracket(brackets, taxable_income) IN
         IF i = 0
         THEN [tag |-> "Ok", value |-> 0, bracket |-> 0]
         ELSE LET bracket == brackets[i]
                  marginal_income == taxable_income - bracket.min_income
                  tax == bracket.base_tax + Mul(marginal_income, bracket.tax_rate)
              IN  [tag |-> "Ok", value |-> round_half_up(tax), bracket |-> i]

\* a lookup that leaves out the bracket's base tax
calculate_tax_NoBase(brackets, taxable_income) ==
    IF taxable_income <= 0 THEN [tag |-> "Ok", value |-> 0, bracket |-> 0]
    ELSE LET i == FindBracket(brackets, taxable_income) IN
         IF i = 0
         THEN [tag |-> "NoMatchingBracket", income |-> taxable_income, bracket |-> 0]
         ELSE LET bracket == brackets[i]
                  marginal_income == taxable_income - bracket.min_income
                  tax == Mul(marginal_income, bracket.tax_rate)
              IN  [tag |-> "Ok", value |-> round_half_up(tax), bracket |-> i]

\* calculate_tax; field bracket records which slice position the lookup
\* selected (0: none consulted or none found)
calculate_tax(brackets, taxable_income) ==
    IF taxable_income <= 0 THEN [tag |-> "Ok", value |-> 0, bracket |-> 0]
    ELSE LET i == FindBracket(brackets, taxable_income) IN
         IF i = 0
         THEN [tag |-> "NoMatchingBracket", income |-> taxable_income, bracket |-> 0]
         ELSE LET bracket == brackets[i]
                  marginal_income == taxable_income - bracket.min_income
                  tax == bracket.base_tax + Mul(marginal_income, bracket.tax_rate)
              IN  [tag |-> "Ok", value |-> round_half_up(tax), bracket |-> i]

----------------------------------------------------------------------------
(* est_tax.rs: the worksheet lines *)

\* a selection that compares the rounded itemized deduction with zero
determine_deduction_RoundFirst(itemized, standard) ==
    IF round_half_up(itemized) > 0
    THEN [deduction |-> round_half_up(itemized), used_itemized |-> TRUE]
    ELSE [deduction |-> round_half_up(standard), used_itemized |-> FALSE]

determine_deduction(itemized, standard) ==
    IF itemized > 0
    THEN [deduction |-> round_half_up(itemized), used_itemized |-> TRUE]
    ELSE [deduction |-> round_half_up(standard), used_itemized |-> FALSE]

total_deductions(deduction, qbi_deduction) ==
    round_half_up(deduction + qbi_deduction)

taxable_income(agi, total_ded) == max(round_half_up(agi - total_ded), 0)

total_tax_before_credits(tax, amt) == round_half_up(tax + amt)

\* credits that are not floored at zero
tax_after_credits_Unfloored(before_credits, credits) ==
    round_half_up(before_credits - credits)

tax_after_credits(before_credits, credits) ==
    max(round_half_up(before_credits - credits), 0)

total_tax(after_credits, se_tax, other_taxes) ==
    round_half_up(after_credits + se_tax + other_taxes)

\* a total that is not floored at zero
total_estimated_tax_Unfloored(total, refundable_credits) ==
    round_half_up(total - refundable_credits)

total_estimated_tax(total, refundable_credits) ==
    max(round_half_up(total - refundable_credits), 0)

\* Decimal::new(90, 2)
NinetyPercent == 90 * CENT

\* v * (Decimal::TWO / Decimal::from(3)).  The quotient is
\* 0.6666666666666666666666666667; the model keeps the product's first four
\* decimals, (2 * v) \div 3.  For the cent-exact v >= 0 the code passes, 2v/3 is
\* never within 1/6 cent of a rounding midpoint, so neither the 28-digit
\* quotient nor the truncation changes what round_half_up returns.
MulTwoThirds(v) == (2 * v) \div 3

\* the two factors the wrong way round
current_year_factor_Swapped(total_est, is_farmer_or_fisher) ==
    IF is_farmer_or_fisher
    THEN round_half_up(Mul(total_est, NinetyPercent))
    ELSE round_half_up(MulTwoThirds(total_est))

current_year_factor(total_est, is_farmer_or_fisher) ==
    IF is_farmer_or_fisher
    THEN round_half_up(MulTwoThirds(total_est))
    ELSE round_half_up(Mul(total_est, NinetyPercent))

\* a payment that ignores the prior-year tax
required_annual_payment_CurrentOnly(current_year, prior_year_tax) ==
    current_year

\* a payment that takes the larger of the two operands
required_annual_payment_Larger(current_year, prior_year_tax) ==
    max(current_year, prior_year_tax)

required_annual_payment(current_year, prior_year_tax) ==
    min(current_year, prior_year_tax)

\* an underpayment with the operands of the difference exchanged
underpayment_Reversed(required, withholding) ==
    max(round_half_up(withholding - required), 0)

underpayment(required, withholding) ==
    max(round_half_up(required - withholding), 0)

threshold_amount(total_est, withholding) ==
    max(round_half_up(total_est - withholding), 0)

\* a test that needs the amount to exceed the threshold
are_estimated_payments_required_Strict(under, amount, threshold) ==
    under > 0 /\ amount > threshold

are_estimated_payments_required(under, amount, threshold) ==
    under > 0 /\ amount >= threshold

\* the let-bindings of EstimatedTaxWorksheet::calculate, in order, up to the
\* bracket lookup
LinesToTax(brackets, in) ==
    LET dd == determine_deduction(in.itemized_deduction, in.standard_deduction)
        td == total_deductions(dd.deduction, in.qbi_deduction)
        ti == taxable_income(in.adjusted_gross_income, td)
    IN  [deduction |-> dd.deduction, used_itemized |-> dd.used_itemized,
         total_deductions |-> td, taxable_income |-> ti,
         tax |-> calculate_tax(brackets, ti)]

\* the remaining let-bindings, given the looked-up tax
LinesFromTax(l, in) ==
    LET calculated_tax == l.tax.value
        before == total_tax_before_credits(calculated_tax, in.alternative_minimum_tax)
        after == tax_after_credits(before, in.credits)
        total == total_tax(after, in.self_employment_tax, in.other_taxes)
        tet == total_estimated_tax(total, in.refundable_credits)
        cyf == current_year_factor(tet, in.is_farmer_or_fisher)
        rap == required_annual_payment(cyf, in.prior_year_tax)
        up == underpayment(rap, in.withholding)
        ta == threshold_amount(tet, in.withholding)
        epr == are_estimated_payments_required(up, ta, in.required_payment_threshold)
    IN  [deduction |-> l.deduction, used_itemized |-> l.used_itemized,
         total_deductions |-> l.total_deductions,
         taxable_income |-> l.taxable_income,
         calculated_tax |-> calculated_tax,
         total_tax_before_credits |-> before, tax_after_credits |-> after,
         total_tax |-> total, total_estimated_tax |-> tet,
         current_year_factor |-> cyf, required_annual_payment |-> rap,
         underpayment |-> up, threshold_amount |-> ta,
         estimated_payments_required |-> epr]

\* Ok(EstimatedTaxWorksheetResult { .. })
EstResult(l) ==
    [tag |-> "Ok",
     taxable_income |-> l.taxable_income,
     calculated_tax |-> l.calculated_tax,
     total_estimated_tax |-> l.total_estimated_tax,
     required_annual_payment |-> l.required_annual_payment,
     underpayment |-> l.underpayment,
     used_itemized_deduction |-> l.used_itemized,
     estimated_payments_required |-> l.estimated_payments_required]

\* a calculate without the is_empty guard: the lookup alone decides
calculate_NoEmptyGuard(brackets, in) ==
    LET l == LinesToTax(brackets, in) IN
    IF l.tax.tag # "Ok"
    THEN [ret |-> NoMatchingBracket(l.tax.income), locals |-> l]
    ELSE [ret |-> EstResult(LinesFromTax(l, in)), locals |-> LinesFromTax(l, in)]

\* EstimatedTaxWorksheet::calculate: the is_empty guard, then the lines; the
\* ? after calculate_tax returns its error.  ret is what the caller gets,
\* locals the let-bindings made before the return
calculate(brackets, in) ==
    IF Len(brackets) = 0
    THEN [ret |-> NoTaxBrackets, locals |-> NONE]
    ELSE LET l == LinesToTax(brackets, in) IN
         IF l.tax.tag # "Ok"
         THEN [ret |-> NoMatchingBracket(l.tax.income), locals |-> l]
         ELSE [ret |-> EstResult(LinesFromTax(l, in)),
               locals |-> LinesFromTax(l, in)]

----------------------------------------------------------------------------
(* self_emp.rs: SeWorksheetConfig::validate *)

SeErr(variant, v) == [tag |-> variant, value |-> v]
OkUnit == [tag |-> "Ok"]

\* a validation that looks at ss_wage_max and min_se_threshold first
validate_AmountsFirst(c) ==
    IF c.ss_wage_max <= 0
    THEN SeErr("InvalidSsWageMax", c.ss_wage_max)
    ELSE IF c.min_se_threshold < 0
    THEN SeErr("InvalidMinSeThreshold", c.min_se_threshold)
    ELSE IF c.net_earnings_factor <= 0 \/ c.net_earnings_factor > ONE
    THEN SeErr("InvalidNetEarningsFactor", c.net_earnings_factor)
    ELSE IF c.ss_tax_rate < 0 \/ c.ss_tax_rate > ONE
    THEN SeErr("InvalidSocialSecurityRate", c.ss_tax_rate)
    ELSE IF c.medicare_tax_rate < 0 \/ c.medicare_tax_rate > ONE
    THEN SeErr("InvalidMedicareRate", c.medicare_tax_rate)
    ELSE IF c.deduction_factor < 0 \/ c.deduction_factor > ONE
    THEN SeErr("InvalidDeductionFactor", c.deduction_factor)
    ELSE OkUnit

\* a validation that lets a net_earnings_factor of zero through
validate_ZeroFactorAllowed(c) ==
    IF c.net_earnings_factor < 0 \/ c.net_earnings_factor > ONE
    THEN SeErr("InvalidNetEarningsFactor", c.net_earnings_factor)
    ELSE IF c.ss_tax_rate < 0 \/ c.ss_tax_rate > ONE
    THEN SeErr("InvalidSocialSecurityRate", c.ss_tax_rate)
    ELSE IF c.medicare_tax_rate < 0 \/ c.medicare_tax_rate > ONE
    THEN SeErr("InvalidMedicareRate", c.medicare_tax_rate)
    ELSE IF c.deduction_factor < 0 \/ c.deduction_factor > ONE
    THEN SeErr("InvalidDeductionFactor", c.deduction_factor)
    ELSE IF c.ss_wage_max <= 0
    THEN SeErr("InvalidSsWageMax", c.ss_wage_max)
    ELSE IF c.min_se_threshold < 0
    THEN SeErr("InvalidMinSeThreshold", c.min_se_threshold)
    ELSE OkUnit

validate(c) ==
    IF c.net_earnings_factor <= 0 \/ c.net_earnings_factor > ONE
    THEN SeErr("InvalidNetEarningsFactor", c.net_earnings_factor)
    ELSE IF c.ss_tax_rate < 0 \/ c.ss_tax_rate > ONE
    THEN SeErr("InvalidSocialSecurityRate", c.ss_tax_rate)
    ELSE IF c.medicare_tax_rate < 0 \/ c.medicare_tax_rate > ONE
    THEN SeErr("InvalidMedicareRate", c.medicare_tax_rate)
    ELSE IF c.deduction_factor < 0 \/ c.deduction_factor > ONE
    THEN SeErr("InvalidDeductionFactor", c.deduction_factor)
    ELSE IF c.ss_wage_max <= 0
    THEN SeErr("InvalidSsWageMax", c.ss_wage_max)
    ELSE IF c.min_se_threshold < 0
    THEN SeErr("InvalidMinSeThreshold", c.min_se_threshold)
    ELSE OkUnit

----------------------------------------------------------------------------
(* self_emp.rs: the SE worksheet lines (the warn! notes change no value) *)

\* SeWorksheetResult::below_threshold
below_threshold(combined) ==
    [tag |-> "Ok",
     combined_se_income |-> combined, net_earnings |-> 0, medicare_tax |-> 0,
     ss_taxable_earnings |-> 0, social_security_tax |-> 0,
     self_employment_tax |-> 0, se_tax_deduction |-> 0,
     below_threshold |-> TRUE]

combined_se_income(se_income, crp_payments) ==
    round_half_up(se_income + crp_payments)

\* net earnings that keep every decimal of the product
net_earnings_from_self_employment_Unrounded(c, combined) ==
    Mul(combined, c.net_earnings_factor)

net_earnings_from_self_employment(c, combined) ==
    round_half_up(Mul(combined, c.net_earnings_factor))

\* a Medicare tax that stops at the Social Security wage base
medicare_tax_Capped(c, net_earnings) ==
    IF net_earnings <= 0 THEN 0
    ELSE round_half_up(Mul(round_half_up(min(net_earnings, c.ss_wage_max)),
                           c.medicare_tax_rate))

medicare_tax(c, net_earnings) ==
    IF net_earnings <= 0 THEN 0
    ELSE round_half_up(Mul(net_earnings, c.medicare_tax_rate))

\* a remaining base cut to whole cents instead of rounded
remaining_ss_wage_base_Truncated(c, wages) ==
    LET remaining == c.ss_wage_max - wages IN
    IF remaining <= 0 THEN 0 ELSE (remaining \div CENT) * CENT

remaining_ss_wage_base(c, wages) ==
    LET remaining == c.ss_wage_max - wages IN
    IF remaining <= 0 THEN 0 ELSE round_half_up(remaining)

\* taxable earnings that ignore the remaining base
ss_taxable_earnings_Uncapped(net_earnings, remaining_ss_base) ==
    IF net_earnings <= 0 THEN 0 ELSE round_half_up(net_earnings)

ss_taxable_earnings(net_earnings, remaining_ss_base) ==
    IF net_earnings <= 0 THEN 0
    ELSE round_half_up(min(net_earnings, remaining_ss_base))

social_security_tax(c, taxable_earnings) ==
    round_half_up(Mul(taxable_earnings, c.ss_tax_rate))

total_self_employment_tax(medicare, social_security) ==
    round_half_up(medicare + social_security)

se_tax_deduction(c, se_tax) ==
    round_half_up(Mul(se_tax, c.deduction_factor))

\* a calculate without the threshold test
AtOrBelowThreshold_Never(c, combined) == FALSE

\* a threshold test that lets income equal to the threshold through
AtOrBelowThreshold_Exclusive(c, combined) == combined < c.min_se_threshold

\* if combined_income <= self.config.min_se_threshold
AtOrBelowThreshold(c, combined) == combined <= c.min_se_threshold

\* the lines after the threshold test
SeLines(c, combined, wages) ==
    LET net == net_earnings_from_self_employment(c, combined)
        med == medicare_tax(c, net)
        remaining == remaining_ss_wage_base(c, wages)
        taxable == ss_taxable_earnings(net, remaining)
        ss == social_security_tax(c, taxable)
        se_tax == total_self_employment_tax(med, ss)
        ded == se_tax_deduction(c, se_tax)
    IN  [tag |-> "Ok",
         combined_se_income |-> combined, net_earnings |-> net,
         medicare_tax |-> med, ss_taxable_earnings |-> taxable,
         social_security_tax |-> ss, self_employment_tax |-> se_tax,
         se_tax_deduction |-> ded, below_threshold |-> FALSE]

\* a calculate that tests the threshold before it validates
se_calculate_ThresholdFirst(c, se_income, crp_payments, wages) ==
    LET combined == combined_se_income(se_income, crp_payments) IN
    IF AtOrBelowThreshold(c, combined) THEN below_threshold(combined)
    ELSE IF validate(c).tag # "Ok" THEN validate(c)
    ELSE SeLines(c, combined, wages)

\* SeWorksheet::calculate
se_calculate(c, se_income, crp_payments, wages) ==
    IF validate(c).tag # "Ok" THEN validate(c)
    ELSE LET combined == combined_se_income(se_income, crp_payments) IN
         IF AtOrBelowThreshold(c, combined) THEN below_threshold(combined)
         ELSE SeLines(c, combined, wages)

----------------------------------------------------------------------------
(* Bounds and input sets *)

\* longest bracket slice of a direct calculate_tax run
MaxLen == 3
\* largest taxable income, in dollars, of a direct calculate_tax run
MaxIncome == 7

\* brackets the slices are built from: a well-formed schedule (0, 2], (2, 5],
\* (5, inf) with cumulative base tax, an unbounded flat bracket that overlaps
\* all of them, and a bracket that leaves a gap below it
BracketPool ==
    { Bracket(0, Some(Dollars(2)), Cents(10), 0),
      Bracket(Dollars(2), Some(Dollars(5)), Cents(20), Cents(20)),
      Bracket(Dollars(5), None, Cents(22), Cents(80)),
      Bracket(0, None, Cents(30), Cents(1) \div 2),
      Bracket(Dollars(3), Some(Dollars(6)), Cents(15), Cents(45)) }

SeqsUpTo(S, n) == UNION { [1..k -> S] : k \in 0..n }

BracketSlices == SeqsUpTo(BracketPool, MaxLen)

\* marginal rates of the generated schedules
RatePool == {0, Cents(10), Cents(25), Cents(37)}

\* where bracket i of a generated schedule begins: 0, 2, 5, 9 ... dollars
Cut(i) == Dollars(((i * (i + 1)) \div 2) - 1)

RECURSIVE CumulativeBase(_, _)
\* the tax owed at the lower end of bracket i under the brackets below it
CumulativeBase(rates, i) ==
    IF i = 1 THEN 0
    ELSE CumulativeBase(rates, i - 1) + Mul(Cut(i) - Cut(i - 1), rates[i - 1])

\* the schedule with the given marginal rates: brackets (Cut(i), Cut(i + 1)],
\* the last one unbounded, each base_tax cumulative
CumulativeSchedule(rates) ==
    [i \in 1..Len(rates) |->
        Bracket(Cut(i),
                IF i = Len(rates) THEN None ELSE Some(Cut(i + 1)),
                rates[i],
                CumulativeBase(rates, i))]

CumulativeSchedules ==
    { CumulativeSchedule(rates) : rates \in SeqsUpTo(RatePool, MaxLen) \ {<<>>} }

\* whole dollars from -1 to MaxIncome, each also one and five cents higher
TaxableIncomes ==
    { Dollars(k) + Cents(c) : k \in (0 - 1)..MaxIncome, c \in {0, 1, 5} }

----------------------------------------------------------------------------
(* Direct calls of calculate_tax *)

InitTax ==
    /\ pc = "ready"
    /\ RoundIdle /\ RegistryIdle /\ LoaderIdle /\ ThreadsIdle
    /\ tax_brackets \in BracketSlices \cup CumulativeSchedules
    /\ taxable_arg \in TaxableIncomes
    /\ tax_ret = NONE
    /\ input = NONE /\ locals = NONE /\ est_ret = NONE
    /\ config = NONE /\ se_args = NONE /\ se_ret = NONE /\ validate_ret = NONE

CalculateTax ==
    /\ pc = "ready"
    /\ tax_ret' = calculate_tax(tax_brackets, taxable_arg)
    /\ pc' = "done"
    /\ UNCHANGED <<tax_brackets, taxable_arg, input, locals, est_ret,
                   config, se_args, se_ret, validate_ret,
                   round_vars, reg_vars, load_vars, conc_vars>>

NextTax == CalculateTax

SpecTax == InitTax /\ [][NextTax]_vars

\* every product the lookup forms lies on the model's grid
TaxProductsExact ==
    \A i \in 1..Len(tax_brackets) :
        MulExact(taxable_arg - tax_brackets[i].min_income, tax_brackets[i].tax_rate)

----------------------------------------------------------------------------
(* Claims about calculate_tax *)

\* the tax the worksheet prints for income t in bracket b
TaxIn(b, t) == round_half_up(b.base_tax + Mul(t - b.min_income, b.tax_rate))

InRange(b, t) ==
    /\ b.min_income < t
    /\ (b.max_income = None \/ t <= b.max_income[1])

\* position i is the first of the slice whose range holds t
FirstInRange(brackets, t, i) ==
    /\ InRange(brackets[i], t)
    /\ \A j \in 1..(i - 1) : ~InRange(brackets[j], t)

\* C1: on a non-empty slice, a positive taxable income is taxed in the first
\* bracket, in slice order, whose range (min, max] holds it, as
\* round_half_up(base_tax + (t - min_income) * tax_rate); an income <= 0 gives
\* 0 and selects no bracket.
C1_FirstMatchingBracket ==
    (pc = "done" /\ Len(tax_brackets) > 0) =>
        /\ taxable_arg <= 0 =>
              /\ tax_ret.tag = "Ok" /\ tax_ret.value = 0 /\ tax_ret.bracket = 0
        /\ taxable_arg > 0 =>
              \A i \in 1..Len(tax_brackets) :
                  FirstInRange(tax_brackets, taxable_arg, i) =>
                      /\ tax_ret.tag = "Ok"
                      /\ tax_ret.bracket = i
                      /\ tax_ret.value = TaxIn(tax_brackets[i], taxable_arg)

\* an unsorted slice in which a later bracket also holds the income, and the
\* first match is not the first element
C1_Witness ==
    /\ pc = "done" /\ taxable_arg > 0
    /\ tax_ret.tag = "Ok" /\ tax_ret.bracket = 2
    /\ Len(tax_brackets) = 3
    /\ InRange(tax_brackets[3], taxable_arg)
    /\ tax_brackets[3].min_income < tax_brackets[2].min_income
    /\ TaxIn(tax_brackets[3], taxable_arg) # tax_ret.value

\* the slice is ascending and contiguous: it starts at or above 0, every
\* bracket but the last ends where the next begins, none is empty
ContiguousAscending(brackets) ==
    /\ Len(brackets) > 0
    /\ brackets[1].min_income >= 0
    /\ \A i \in 1..Len(brackets) :
          /\ brackets[i].max_income # None =>
                brackets[i].min_income < brackets[i].max_income[1]
          /\ i < Len(brackets) =>
                /\ brackets[i].max_income # None
                /\ brackets[i].max_income[1] = brackets[i + 1].min_income

\* C2: in an ascending contiguous table, an income equal to the boundary b
\* between two adjacent brackets is taxed with the lower bracket's base and
\* rate, and b + 0.01 with the upper bracket's.
C2_BoundaryExactness ==
    (pc = "done" /\ ContiguousAscending(tax_brackets)) =>
        \A i \in 1..(Len(tax_brackets) - 1) :
            LET b == tax_brackets[i].max_income[1] IN
            /\ taxable_arg = b =>
                  /\ tax_ret.tag = "Ok" /\ tax_ret.bracket = i
                  /\ tax_ret.value = TaxIn(tax_brackets[i], b)
            /\ taxable_arg = b + CENT =>
                  /\ tax_ret.tag = "Ok" /\ tax_ret.bracket = i + 1
                  /\ tax_ret.value = TaxIn(tax_brackets[i + 1], b + CENT)

\* the income sits exactly on the boundary between the second and third
\* bracket of a three-bracket schedule and was taxed in the second
C2_Witness ==
    /\ pc = "done" /\ ContiguousAscending(tax_brackets)
    /\ Len(tax_brackets) = 3
    /\ taxable_arg = tax_brackets[3].min_income
    /\ tax_ret.tag = "Ok" /\ tax_ret.bracket = 2

\* one cent above a boundary, taxed in the upper bracket
C2_WitnessAbove ==
    /\ pc = "done" /\ ContiguousAscending(tax_brackets)
    /\ Len(tax_brackets) = 3
    /\ taxable_arg = tax_brackets[2].min_income + CENT
    /\ tax_ret.tag = "Ok" /\ tax_ret.bracket = 2

----------------------------------------------------------------------------
(* Calls of EstimatedTaxWorksheet::calculate *)

\* adjusted gross incomes: 0.005 above every third dollar up to 3 * MaxAgi
MaxAgi == 2
\* required-payment thresholds, in dollars
MaxThreshold == 1

HalfCent == CENT \div 2
\* 0.004: positive, rounds to 0.00
FourMills == 4 * (ONE \div 1000)

\* the well-formed schedule, a slice whose only bracket is (3, 6], no slice
Schedule ==
    << Bracket(0, Some(Dollars(2)), Cents(10), 0),
       Bracket(Dollars(2), Some(Dollars(5)), Cents(20), Cents(20)),
       Bracket(Dollars(5), None, Cents(22), Cents(80)) >>
GapSlice == << Bracket(Dollars(3), Some(Dollars(6)), Cents(15), Cents(45)) >>

AgiValues ==
    {Dollars(0 - 1), Dollars(3)} \cup {Dollars(3 * k) + HalfCent : k \in 0..MaxAgi}

EstInputs ==
    [adjusted_gross_income : AgiValues,
     itemized_deduction : {Dollars(0 - 1), 0, FourMills, Dollars(2) + HalfCent},
     standard_deduction : {Dollars(1), Dollars(1) + HalfCent},
     qbi_deduction : {0, Cents(50)},
     alternative_minimum_tax : {0, Dollars(1)},
     credits : {0, Cents(50)},
     self_employment_tax : {0, Dollars(1)},
     other_taxes : {0},
     refundable_credits : {0, Cents(25)},
     prior_year_tax : {0, Cents(50) + HalfCent, Dollars(100)},
     withholding : {0, Cents(45)},
     is_farmer_or_fisher : BOOLEAN,
     required_payment_threshold : {Dollars(k) : k \in 0..MaxThreshold}]

\* on the slices that make the lookup fail, only the lines above it vary
EstInputsShort ==
    { in \in EstInputs :
        /\ in.alternative_minimum_tax = 0 /\ in.credits = 0
        /\ in.self_employment_tax = 0 /\ in.refundable_credits = 0
        /\ in.prior_year_tax = 0 /\ in.withholding = 0
        /\ ~in.is_farmer_or_fisher /\ in.required_payment_threshold = 0 }

\* inputs in which every amount also takes a negative value
SignedInputs ==
    [adjusted_gross_income : {Dollars(0 - 1), Dollars(6) + HalfCent},
     itemized_deduction : {Dollars(0 - 1), Dollars(2) + HalfCent},
     standard_deduction : {Dollars(0 - 1), Dollars(1) + HalfCent},
     qbi_deduction : {0 - Cents(50), Cents(50)},
     alternative_minimum_tax : {Dollars(0 - 1), Dollars(1)},
     credits : {0 - Cents(50), Cents(50), Dollars(5)},
     self_employment_tax : {Dollars(0 - 1), Dollars(1)},
     other_taxes : {0 - Cents(25), Cents(25)},
     refundable_credits : {0 - Cents(25), Cents(25), Dollars(9)},
     prior_year_tax : {Dollars(0 - 1), Dollars(100)},
     withholding : {0 - Cents(45), Cents(45), Dollars(20)},
     is_farmer_or_fisher : BOOLEAN,
     required_payment_threshold : {Dollars(0 - 1), Dollars(1)}]

\* inputs whose prior-year tax and withholding lie close to each other, under
\* a current-year tax well above both
HarbourInputs ==
    [adjusted_gross_income : {Dollars(6) + HalfCent},
     itemized_deduction : {0},
     standard_deduction : {Dollars(1)},
     qbi_deduction : {0},
     alternative_minimum_tax : {0, Dollars(1)},
     credits : {0},
     self_employment_tax : {0, Dollars(1)},
     other_taxes : {0},
     refundable_credits : {0},
     prior_year_tax : {Cents(50), Cents(50) + HalfCent, Cents(51), Dollars(1)},
     withholding : {Cents(45), Cents(50), Cents(50) + HalfCent, Cents(51), Dollars(1)},
     is_farmer_or_fisher : BOOLEAN,
     required_payment_threshold : {0, Dollars(1)}]

\* slices that partition (0, inf): the generated schedules, and one flat
\* bracket whose base tax is not cumulative
PartitionSlices ==
    CumulativeSchedules \cup {<< Bracket(0, None, Cents(30), HalfCent) >>}

InitEst ==
    /\ pc = "ready"
    /\ RoundIdle /\ RegistryIdle /\ LoaderIdle /\ ThreadsIdle
    /\ \/ tax_brackets = Schedule /\ input \in EstInputs
       \/ tax_brackets \in {<<>>, GapSlice} /\ input \in EstInputsShort
       \/ tax_brackets \in {<<>>, Schedule} /\ input \in SignedInputs
       \/ tax_brackets \in PartitionSlices /\ input \in EstInputsShort
       \/ tax_brackets = Schedule /\ input \in HarbourInputs
    /\ locals = NONE /\ est_ret = NONE
    /\ taxable_arg = NONE /\ tax_ret = NONE
    /\ config = NONE /\ se_args = NONE /\ se_ret = NONE /\ validate_ret = NONE

\* one call of EstimatedTaxWorksheet::calculate
Calculate ==
    /\ pc = "ready"
    /\ est_ret' = calculate(tax_brackets, input).ret
    /\ locals' = calculate(tax_brackets, input).locals
    /\ pc' = "done"
    /\ UNCHANGED <<tax_brackets, taxable_arg, tax_ret, input,
                   config, se_args, se_ret, validate_ret,
                   round_vars, reg_vars, load_vars, conc_vars>>

NextEst == Calculate

SpecEst == InitEst /\ [][NextEst]_vars

\* every product the worksheet forms lies on the model's grid
EstProductsExact ==
    (pc = "done" /\ est_ret.tag = "Ok") =>
        /\ IsCentExact(locals.taxable_income)
        /\ IsCentExact(locals.total_estimated_tax)
        /\ locals.total_estimated_tax >= 0

----------------------------------------------------------------------------
(* Claims about EstimatedTaxWorksheet::calculate *)

EstOk == pc = "done" /\ est_ret.tag = "Ok"

\* C3 as stated: the itemized deduction is used exactly when its rounded
\* value is positive, otherwise the rounded standard deduction is.
C3_RoundedComparison ==
    EstOk =>
        /\ est_ret.used_itemized_deduction
              <=> (round_half_up(input.itemized_deduction) > 0)
        /\ locals.deduction =
              IF round_half_up(input.itemized_deduction) > 0
              THEN round_half_up(input.itemized_deduction)
              ELSE round_half_up(input.standard_deduction)

\* C3 amended: the itemized deduction is used exactly when the unrounded
\* itemized_deduction is positive; the chosen candidate is rounded after the
\* comparison, and taxable income follows from it.
C3_UnroundedComparison ==
    EstOk =>
        /\ est_ret.used_itemized_deduction <=> (input.itemized_deduction > 0)
        /\ input.itemized_deduction > 0 =>
              locals.deduction = round_half_up(input.itemized_deduction)
        /\ input.itemized_deduction <= 0 =>
              locals.deduction = round_half_up(input.standard_deduction)
        /\ est_ret.taxable_income =
              max(round_half_up(input.adjusted_gross_income
                    - round_half_up(locals.deduction + input.qbi_deduction)), 0)

\* an itemized deduction of 0.004 was chosen and rounded to 0.00
C3_Witness ==
    /\ EstOk
    /\ input.itemized_deduction > 0
    /\ round_half_up(input.itemized_deduction) = 0
    /\ est_ret.used_itemized_deduction
    /\ locals.deduction = 0

\* C4: payments are required exactly when the underpayment is positive and
\* the threshold amount reaches the threshold, both recomputed from the
\* returned required_annual_payment and total_estimated_tax.
C4_PaymentsRequired ==
    EstOk =>
        LET u == max(round_half_up(est_ret.required_annual_payment
                                     - input.withholding), 0)
            a == max(round_half_up(est_ret.total_estimated_tax
                                     - input.withholding), 0)
        IN  /\ est_ret.underpayment = u
            /\ locals.threshold_amount = a
            /\ est_ret.estimated_payments_required
                  <=> (u > 0 /\ a >= input.required_payment_threshold)

\* the threshold amount equals a positive threshold, and payments are required
C4_Witness ==
    /\ EstOk
    /\ est_ret.underpayment > 0
    /\ input.required_payment_threshold > 0
    /\ locals.threshold_amount = input.required_payment_threshold
    /\ est_ret.estimated_payments_required

\* a positive underpayment below the threshold: no payments required
C4_WitnessBelow ==
    /\ EstOk
    /\ est_ret.underpayment > 0
    /\ locals.threshold_amount < input.required_payment_threshold
    /\ ~est_ret.estimated_payments_required

\* num/den of a cent-exact v >= 0, to the nearest cent, halves up
ShareToCent(v, num, den) ==
    ((2 * num * (v \div CENT) + den) \div (2 * den)) * CENT

\* min(round(total_estimated_tax * factor), prior_year_tax)
C5_Smaller ==
    LET share == IF input.is_farmer_or_fisher
                 THEN ShareToCent(est_ret.total_estimated_tax, 2, 3)
                 ELSE ShareToCent(est_ret.total_estimated_tax, 9, 10)
    IN  IF share <= input.prior_year_tax THEN share ELSE input.prior_year_tax

\* C5 as stated: required_annual_payment is the smaller of the rounded
\* current-year share and prior_year_tax, and is always cent-exact.
C5_AlwaysCentExact ==
    EstOk =>
        /\ est_ret.required_annual_payment = C5_Smaller
        /\ IsCentExact(est_ret.required_annual_payment)

\* C5 amended: required_annual_payment is the smaller of the rounded
\* current-year share and prior_year_tax, unrounded; it is cent-exact
\* whenever prior_year_tax is cent-exact or is not the smaller operand.
C5_CentExactUnlessPriorYear ==
    EstOk =>
        /\ est_ret.required_annual_payment = C5_Smaller
        /\ (IsCentExact(input.prior_year_tax)
              \/ est_ret.required_annual_payment # input.prior_year_tax)
             => IsCentExact(est_ret.required_annual_payment)

\* a prior_year_tax of 0.505 was the smaller operand and was returned as is
C5_Witness ==
    /\ EstOk
    /\ ~IsCentExact(input.prior_year_tax)
    /\ input.prior_year_tax < locals.current_year_factor
    /\ est_ret.required_annual_payment = input.prior_year_tax

\* the current-year share was the smaller operand, for a farmer
C5_WitnessShare ==
    /\ EstOk
    /\ input.is_farmer_or_fisher
    /\ locals.current_year_factor > 0
    /\ locals.current_year_factor < input.prior_year_tax
    /\ est_ret.required_annual_payment = locals.current_year_factor

----------------------------------------------------------------------------
(* Calls of SeWorksheetConfig::validate and SeWorksheet::calculate *)

\* self-employment incomes reach 3 * MaxSe dollars, wages 4 * MaxWages dollars
MaxSe == 3
MaxWages == 2

\* below, at the lower end of, inside, at the upper end of, above [0, 1]
RateValues(inside) == {0 - CENT, 0, inside, ONE, ONE + CENT}

SeConfig(wm, sr, mr, nf, df, th) ==
    [ss_wage_max |-> wm, ss_tax_rate |-> sr, medicare_tax_rate |-> mr,
     net_earnings_factor |-> nf, deduction_factor |-> df,
     min_se_threshold |-> th]

\* every combination of in-range, boundary and out-of-range fields
AllConfigs ==
    [ss_wage_max : {Dollars(0 - 1), 0, Dollars(5) + 6 * (ONE \div 1000), Dollars(8)},
     ss_tax_rate : RateValues(Cents(12)),
     medicare_tax_rate : RateValues(Cents(3)),
     net_earnings_factor : RateValues(Cents(95)),
     deduction_factor : RateValues(Cents(50)),
     min_se_threshold : {0 - CENT, 0, Dollars(4)}]

\* what the struct documents as the valid ranges
InRange01(v) == 0 <= v /\ v <= ONE
DocumentedValid(c) ==
    /\ 0 < c.net_earnings_factor /\ c.net_earnings_factor <= ONE
    /\ InRange01(c.ss_tax_rate)
    /\ InRange01(c.medicare_tax_rate)
    /\ InRange01(c.deduction_factor)
    /\ c.ss_wage_max > 0
    /\ c.min_se_threshold >= 0

\* a 2025-like configuration scaled to the model's amounts
BaseConfig ==
    SeConfig(Dollars(8), Cents(12), Cents(3), Cents(95), Cents(50), Dollars(4))

\* the number of fields in which two configurations differ
Differs(c, d) ==
    Cardinality({f \in DOMAIN c : c[f] # d[f]})

\* the configurations calculate runs on: the valid ones within two fields of
\* BaseConfig, the valid ones within one field of it with net_earnings_factor
\* lowered to 0.05, and the invalid ones with a single field changed
CalcConfigs ==
    { c \in AllConfigs :
        IF DocumentedValid(c) THEN Differs(c, BaseConfig) <= 2
        ELSE Differs(c, BaseConfig) = 1 }
    \cup
    { [c EXCEPT !.net_earnings_factor = 5 * CENT] :
        c \in { d \in AllConfigs : DocumentedValid(d) /\ Differs(d, BaseConfig) <= 1 } }

SeIncomes ==
    {Dollars(0 - 2), Cents(5), Dollars(4) - HalfCent, Dollars(4), Dollars(4) + HalfCent}
        \cup {Dollars(3 * k) : k \in 2..MaxSe}
CrpPayments == {0, FourMills, HalfCent}
WageValues ==
    {Dollars(0 - 1), 0, Dollars(2) + 4 * (ONE \div 1000)}
        \cup {Dollars(4 * k) : k \in 1..MaxWages}

SeArgs == [se_income : SeIncomes, crp_payments : CrpPayments, wages : WageValues]

InitValidate ==
    /\ pc = "ready"
    /\ RoundIdle /\ RegistryIdle /\ LoaderIdle /\ ThreadsIdle
    /\ config \in AllConfigs
    /\ validate_ret = NONE
    /\ se_args = NONE /\ se_ret = NONE
    /\ tax_brackets = <<>> /\ taxable_arg = NONE /\ tax_ret = NONE
    /\ input = NONE /\ locals = NONE /\ est_ret = NONE

Validate ==
    /\ pc = "ready"
    /\ validate_ret' = validate(config)
    /\ pc' = "done"
    /\ UNCHANGED <<tax_brackets, taxable_arg, tax_ret, input, locals, est_ret,
                   config, se_args, se_ret,
                   round_vars, reg_vars, load_vars, conc_vars>>

NextValidate == Validate

SpecValidate == InitValidate /\ [][NextValidate]_vars

InitSe ==
    /\ pc = "ready"
    /\ RoundIdle /\ RegistryIdle /\ LoaderIdle /\ ThreadsIdle
    /\ config \in CalcConfigs
    /\ se_args \in SeArgs
    /\ se_ret = NONE /\ validate_ret = NONE
    /\ tax_brackets = <<>> /\ taxable_arg = NONE /\ tax_ret = NONE
    /\ input = NONE /\ locals = NONE /\ est_ret = NONE

SeCalculate ==
    /\ pc = "ready"
    /\ se_ret' = se_calculate(config, se_args.se_income, se_args.crp_payments,
                              se_args.wages)
    /\ pc' = "done"
    /\ UNCHANGED <<tax_brackets, taxable_arg, tax_ret, input, locals, est_ret,
                   config, se_args, validate_ret,
                   round_vars, reg_vars, load_vars, conc_vars>>

NextSe == SeCalculate

SpecSe == InitSe /\ [][NextSe]_vars

\* every product the worksheet forms lies on the model's grid
SeProductsExact ==
    (pc = "done" /\ se_ret.tag = "Ok" /\ ~se_ret.below_threshold) =>
        /\ MulExact(se_ret.combined_se_income, config.net_earnings_factor)
        /\ MulExact(se_ret.net_earnings, config.medicare_tax_rate)
        /\ MulExact(se_ret.ss_taxable_earnings, config.ss_tax_rate)
        /\ MulExact(se_ret.self_employment_tax, config.deduction_factor)

----------------------------------------------------------------------------
(* Claims about the SE worksheet *)

SeDone == pc = "done" /\ DocumentedValid(config)

RoundedSum == round_half_up(se_args.se_income + se_args.crp_payments)

\* C6: with a valid configuration, below_threshold is set exactly when the
\* rounded sum of se_income and crp_payments is at or below min_se_threshold;
\* then combined_se_income is that sum and every other amount is zero.
C6_ThresholdInclusive ==
    SeDone =>
        /\ se_ret.tag = "Ok"
        /\ se_ret.below_threshold <=> (RoundedSum <= config.min_se_threshold)
        /\ se_ret.below_threshold =>
              /\ se_ret.combined_se_income = RoundedSum
              /\ se_ret.net_earnings = 0
              /\ se_ret.medicare_tax = 0
              /\ se_ret.ss_taxable_earnings = 0
              /\ se_ret.social_security_tax = 0
              /\ se_ret.self_employment_tax = 0
              /\ se_ret.se_tax_deduction = 0

\* an unrounded sum above a positive threshold rounds down onto it
C6_Witness ==
    /\ SeDone
    /\ config.min_se_threshold > 0
    /\ se_args.se_income + se_args.crp_payments > config.min_se_threshold
    /\ RoundedSum = config.min_se_threshold
    /\ se_ret.tag = "Ok" /\ se_ret.below_threshold

\* a negative combined income is below the threshold
C6_WitnessNegative ==
    /\ SeDone
    /\ RoundedSum < 0
    /\ se_ret.tag = "Ok" /\ se_ret.below_threshold
    /\ se_ret.combined_se_income < 0

\* the worksheet as the specification lists its steps: the remaining wage
\* base is floored at zero but not rounded
StepPipeline(c, se_income, crp_payments, wages) ==
    LET combined == round_half_up(se_income + crp_payments)
        net == round_half_up(Mul(combined, c.net_earnings_factor))
        med == IF net <= 0 THEN 0 ELSE round_half_up(Mul(net, c.medicare_tax_rate))
        base == IF c.ss_wage_max - wages <= 0 THEN 0 ELSE c.ss_wage_max - wages
        taxable == IF net <= 0 THEN 0
                   ELSE round_half_up(IF net <= base THEN net ELSE base)
        ss == round_half_up(Mul(taxable, c.ss_tax_rate))
        se_tax == round_half_up(med + ss)
        ded == round_half_up(Mul(se_tax, c.deduction_factor))
    IN  [tag |-> "Ok",
         combined_se_income |-> combined, net_earnings |-> net,
         medicare_tax |-> med, ss_taxable_earnings |-> taxable,
         social_security_tax |-> ss, self_employment_tax |-> se_tax,
         se_tax_deduction |-> ded, below_threshold |-> FALSE]

\* C7: with a valid configuration and rounded combined income above the
\* threshold, calculate returns what the step pipeline gives, field for field;
\* rounding the remaining wage base first changes nothing.
C7_StepPipeline ==
    (SeDone /\ RoundedSum > config.min_se_threshold) =>
        se_ret = StepPipeline(config, se_args.se_income, se_args.crp_payments,
                              se_args.wages)

\* the remaining wage base is not cent-exact and is what caps the earnings
C7_Witness ==
    /\ SeDone /\ RoundedSum > config.min_se_threshold
    /\ ~IsCentExact(config.ss_wage_max - se_args.wages)
    /\ config.ss_wage_max - se_args.wages > 0
    /\ se_ret.tag = "Ok"
    /\ se_ret.net_earnings > config.ss_wage_max - se_args.wages
    /\ se_ret.social_security_tax > 0
    /\ se_ret.se_tax_deduction > 0

\* ss_wage_max - wages, treated as 0 when <= 0
RemainingBase ==
    IF config.ss_wage_max - se_args.wages <= 0 THEN 0
    ELSE config.ss_wage_max - se_args.wages

\* C8 as stated: earnings above the remaining base are taxed on exactly the
\* remaining base; earnings within it are taxed in full; wages at or above
\* the wage maximum leave only Medicare tax.
C8_CapEqualsBase ==
    (SeDone /\ se_ret.tag = "Ok") =>
        /\ se_ret.net_earnings > RemainingBase =>
              /\ se_ret.ss_taxable_earnings = RemainingBase
              /\ se_ret.ss_taxable_earnings <= RemainingBase
        /\ se_args.wages >= config.ss_wage_max =>
              /\ se_ret.ss_taxable_earnings = 0
              /\ se_ret.social_security_tax = 0
              /\ se_ret.self_employment_tax = se_ret.medicare_tax
        /\ se_ret.net_earnings <= RemainingBase =>
              se_ret.ss_taxable_earnings = se_ret.net_earnings

\* C8 amended: earnings above the remaining base are taxed on the remaining
\* base rounded to the cent, which never exceeds the earnings and equals the
\* remaining base when that is cent-exact; the rest as stated.
C8_CapEqualsRoundedBase ==
    (SeDone /\ se_ret.tag = "Ok") =>
        /\ se_ret.net_earnings > RemainingBase =>
              /\ se_ret.ss_taxable_earnings = round_half_up(RemainingBase)
              /\ se_ret.ss_taxable_earnings <= se_ret.net_earnings
              /\ IsCentExact(RemainingBase) =>
                    se_ret.ss_taxable_earnings = RemainingBase
        /\ se_args.wages >= config.ss_wage_max =>
              /\ se_ret.ss_taxable_earnings = 0
              /\ se_ret.social_security_tax = 0
              /\ se_ret.self_employment_tax = se_ret.medicare_tax
        /\ se_ret.net_earnings <= RemainingBase =>
              se_ret.ss_taxable_earnings = se_ret.net_earnings

\* earnings above a remaining base of x.xx6: taxed on one cent-fraction more
C8_Witness ==
    /\ SeDone /\ se_ret.tag = "Ok" /\ ~se_ret.below_threshold
    /\ se_ret.net_earnings > RemainingBase
    /\ RemainingBase > 0
    /\ se_ret.ss_taxable_earnings > RemainingBase
    /\ se_ret.ss_taxable_earnings < se_ret.net_earnings

\* wages at or above the wage maximum with positive earnings
C8_WitnessNoBase ==
    /\ SeDone /\ se_ret.tag = "Ok" /\ ~se_ret.below_threshold
    /\ se_args.wages >= config.ss_wage_max
    /\ se_ret.medicare_tax > 0
    /\ se_ret.self_employment_tax = se_ret.medicare_tax

SeErrorTags ==
    {"InvalidNetEarningsFactor", "InvalidSocialSecurityRate",
     "InvalidMedicareRate", "InvalidDeductionFactor", "InvalidSsWageMax",
     "InvalidMinSeThreshold"}

\* C9: with a configuration outside the documented ranges, calculate returns
\* the error validate gives for it, whatever the incomes and wages, and no
\* result.
C9_ValidateFirst ==
    (pc = "done" /\ ~DocumentedValid(config)) =>
        /\ se_ret.tag \in SeErrorTags
        /\ se_ret = validate(config)
        /\ DOMAIN se_ret = {"tag", "value"}

\* an invalid configuration and a combined income at or below its threshold
C9_Witness ==
    /\ pc = "done" /\ ~DocumentedValid(config)
    /\ RoundedSum <= config.min_se_threshold
    /\ se_ret.tag \in SeErrorTags

\* C10: validate returns Ok exactly for the configurations inside the
\* documented ranges.
C10_ValidateRanges ==
    pc = "done" =>
        /\ validate_ret.tag \in SeErrorTags \cup {"Ok"}
        /\ validate_ret.tag = "Ok" <=> DocumentedValid(config)

\* every field sits on an accepted end of its range
C10_Witness ==
    /\ pc = "done" /\ validate_ret.tag = "Ok"
    /\ config.net_earnings_factor = ONE
    /\ config.ss_tax_rate = 0
    /\ config.medicare_tax_rate = ONE
    /\ config.deduction_factor = 0
    /\ config.min_se_threshold = 0

\* a net_earnings_factor of zero, everything else in range, is rejected
C10_WitnessZeroFactor ==
    /\ pc = "done"
    /\ config.net_earnings_factor = 0
    /\ DocumentedValid([config EXCEPT !.net_earnings_factor = ONE])
    /\ validate_ret.tag = "InvalidNetEarningsFactor"

----------------------------------------------------------------------------
(* Claims about the errors of EstimatedTaxWorksheet::calculate *)

\* agi - round(deduction + qbi), rounded and floored: the taxable income the
\* input gives, with the deduction chosen on the unrounded itemized amount
InputTaxable ==
    LET ded == IF input.itemized_deduction > 0
               THEN round_half_up(input.itemized_deduction)
               ELSE round_half_up(input.standard_deduction)
        r == round_half_up(input.adjusted_gross_income
                             - round_half_up(ded + input.qbi_deduction))
    IN  IF r > 0 THEN r ELSE 0

\* C11: on an empty slice calculate returns NoTaxBrackets whatever the input,
\* and binds no worksheet line before it.
C11_EmptySlice ==
    (pc = "done" /\ input # NONE /\ Len(tax_brackets) = 0) =>
        /\ est_ret = [tag |-> "NoTaxBrackets"]
        /\ locals = NONE

\* an empty slice and an input whose taxable income is zero
C11_Witness ==
    /\ pc = "done" /\ input # NONE /\ Len(tax_brackets) = 0
    /\ InputTaxable = 0
    /\ est_ret.tag = "NoTaxBrackets"

\* C12: on a non-empty slice calculate returns NoMatchingBracket exactly when
\* the taxable income is positive and in no bracket's range; the payload is
\* that income and the value has no result field.
C12_NoMatchingBracket ==
    (pc = "done" /\ input # NONE /\ Len(tax_brackets) > 0) =>
        LET unmatched ==
                /\ InputTaxable > 0
                /\ \A i \in 1..Len(tax_brackets) :
                       ~InRange(tax_brackets[i], InputTaxable)
        IN  /\ est_ret.tag \in {"Ok", "NoMatchingBracket"}
            /\ est_ret.tag = "NoMatchingBracket" <=> unmatched
            /\ unmatched =>
                  est_ret = [tag |-> "NoMatchingBracket", income |-> InputTaxable]

\* a positive taxable income below the only bracket of the slice
C12_Witness ==
    /\ pc = "done" /\ input # NONE /\ Len(tax_brackets) = 1
    /\ InputTaxable > 0
    /\ InputTaxable <= tax_brackets[1].min_income
    /\ est_ret.tag = "NoMatchingBracket"
    /\ est_ret.income = InputTaxable

\* the same slice with an income inside its bracket: a result
C12_WitnessMatched ==
    /\ pc = "done" /\ input # NONE /\ tax_brackets = GapSlice
    /\ est_ret.tag = "Ok" /\ est_ret.calculated_tax > 0

----------------------------------------------------------------------------
(* Claims about the totals of EstimatedTaxWorksheet::calculate *)

\* C13: in every successful calculate, taxable_income, tax_after_credits,
\* total_estimated_tax, underpayment and threshold_amount are >= 0, whatever
\* the signs of the input amounts.
C13_NonNegative ==
    EstOk =>
        /\ est_ret.taxable_income >= 0
        /\ locals.tax_after_credits >= 0
        /\ est_ret.total_estimated_tax >= 0
        /\ est_ret.underpayment >= 0
        /\ locals.threshold_amount >= 0

\* negative income, taxes and prior-year tax: the total tax before refundable
\* credits and the required payment are negative, the floored lines are zero
C13_Witness ==
    /\ EstOk
    /\ input.adjusted_gross_income < 0
    /\ input.self_employment_tax < 0
    /\ input.withholding < 0
    /\ locals.total_tax < 0
    /\ est_ret.required_annual_payment < 0
    /\ est_ret.total_estimated_tax = 0
    /\ est_ret.underpayment = 0

\* round(calculated_tax + amt)
C15_BeforeCredits ==
    round_half_up(est_ret.calculated_tax + input.alternative_minimum_tax)

\* C15: tax_after_credits = max(round(round(calculated_tax + amt) - credits), 0),
\* total_tax = round(tax_after_credits + self_employment_tax + other_taxes),
\* total_estimated_tax = max(round(total_tax - refundable_credits), 0); when
\* credits reach the tax before credits, total_tax is
\* round(self_employment_tax + other_taxes).
C15_TaxTotals ==
    EstOk =>
        LET d == round_half_up(C15_BeforeCredits - input.credits)
            after == IF d > 0 THEN d ELSE 0
            total == round_half_up(after + input.self_employment_tax
                                     + input.other_taxes)
            e == round_half_up(total - input.refundable_credits)
        IN  /\ locals.tax_after_credits = after
            /\ locals.total_tax = total
            /\ est_ret.total_estimated_tax = (IF e > 0 THEN e ELSE 0)
            /\ input.credits >= C15_BeforeCredits =>
                  locals.total_tax =
                      round_half_up(input.self_employment_tax + input.other_taxes)

\* credits above a positive tax leave the SE and other taxes whole, and a
\* refundable credit then takes part of them
C15_Witness ==
    /\ EstOk
    /\ C15_BeforeCredits > 0
    /\ input.credits > C15_BeforeCredits
    /\ input.self_employment_tax > 0
    /\ locals.total_tax = input.self_employment_tax + input.other_taxes
    /\ input.refundable_credits > 0
    /\ est_ret.total_estimated_tax > 0
    /\ est_ret.total_estimated_tax < locals.total_tax

\* what calculate returns for the same input with the farmer flag flipped
C16_Flipped ==
    calculate(tax_brackets,
              [input EXCEPT !.is_farmer_or_fisher = ~input.is_farmer_or_fisher]).ret

\* C16: the current-year factor is total_estimated_tax * 2/3 to the cent for a
\* farmer or fisher and * 0.90 to the cent otherwise; flipping the flag leaves
\* taxable_income, calculated_tax, total_estimated_tax and
\* used_itemized_deduction as they are.
C16_FarmerFactor ==
    EstOk =>
        /\ locals.current_year_factor =
              IF input.is_farmer_or_fisher
              THEN ShareToCent(est_ret.total_estimated_tax, 2, 3)
              ELSE ShareToCent(est_ret.total_estimated_tax, 9, 10)
        /\ C16_Flipped.tag = "Ok"
        /\ C16_Flipped.taxable_income = est_ret.taxable_income
        /\ C16_Flipped.calculated_tax = est_ret.calculated_tax
        /\ C16_Flipped.total_estimated_tax = est_ret.total_estimated_tax
        /\ C16_Flipped.used_itemized_deduction = est_ret.used_itemized_deduction

\* a farmer whose two-thirds share is the required payment; without the flag
\* the payment and the payments-required flag differ
C16_Witness ==
    /\ EstOk
    /\ input.is_farmer_or_fisher
    /\ est_ret.total_estimated_tax > 0
    /\ est_ret.required_annual_payment = locals.current_year_factor
    /\ C16_Flipped.required_annual_payment > est_ret.required_annual_payment
    /\ C16_Flipped.underpayment > est_ret.underpayment
    /\ C16_Flipped.estimated_payments_required
    /\ ~est_ret.estimated_payments_required

----------------------------------------------------------------------------
(* Claims about the shape of calculate_tax *)

\* the TaxBracket invariant: the slice partitions (0, inf) in ascending order,
\* only its last bracket is unbounded, no rate is negative, and each base_tax
\* is the tax owed at the bracket's min_income under the brackets below it
BracketInvariant(brackets) ==
    /\ ContiguousAscending(brackets)
    /\ brackets[1].min_income = 0
    /\ brackets[1].base_tax = 0
    /\ brackets[Len(brackets)].max_income = None
    /\ \A i \in 1..Len(brackets) :
          /\ brackets[i].tax_rate >= 0
          /\ i < Len(brackets) =>
                brackets[i + 1].base_tax =
                    brackets[i].base_tax
                    + Mul(brackets[i].max_income[1] - brackets[i].min_income,
                          brackets[i].tax_rate)

\* C14: on a slice that satisfies the TaxBracket invariant every taxable
\* income has a tax, and an income no larger than another never has the
\* larger tax, also when a bracket boundary lies between the two.
C14_Monotone ==
    (pc = "done" /\ BracketInvariant(tax_brackets)) =>
        /\ tax_ret.tag = "Ok"
        /\ \A t1 \in TaxableIncomes :
              t1 <= taxable_arg =>
                  /\ calculate_tax(tax_brackets, t1).tag = "Ok"
                  /\ calculate_tax(tax_brackets, t1).value <= tax_ret.value

\* the income lies five cents above the first boundary, in the second bracket,
\* and the income on the boundary is taxed less in the first
C14_Witness ==
    /\ pc = "done"
    /\ BracketInvariant(tax_brackets)
    /\ Len(tax_brackets) >= 2
    /\ taxable_arg = tax_brackets[2].min_income + Cents(5)
    /\ tax_ret.tag = "Ok" /\ tax_ret.bracket = 2
    /\ calculate_tax(tax_brackets, tax_brackets[2].min_income).bracket = 1
    /\ calculate_tax(tax_brackets, tax_brackets[2].min_income).value < tax_ret.value

----------------------------------------------------------------------------
(* Direct calls of round_half_up *)

\* largest magnitude, in units of 0.0001, of the values rounded near zero
MaxRoundUnits == 250

\* 123.45 dollars, the amount the examples of common.rs are built around
ExampleAmount == Dollars(123) + Cents(45)

\* every value within MaxRoundUnits of zero, and the values within
\* MaxRoundUnits of the example amount and of its negation
RoundValues ==
    { s * (b + u) : s \in {0 - 1, 1}, b \in {0, ExampleAmount},
                    u \in (0 - MaxRoundUnits)..MaxRoundUnits }

InitRound ==
    /\ pc = "ready"
    /\ round_arg \in RoundValues
    /\ round_ret = NONE /\ round_again = NONE
    /\ RegistryIdle /\ LoaderIdle /\ ThreadsIdle
    /\ tax_brackets = <<>> /\ taxable_arg = NONE /\ tax_ret = NONE
    /\ input = NONE /\ locals = NONE /\ est_ret = NONE
    /\ config = NONE /\ se_args = NONE /\ se_ret = NONE /\ validate_ret = NONE

Round ==
    /\ pc = "ready"
    /\ round_ret' = round_half_up(round_arg)
    /\ pc' = "done"
    /\ UNCHANGED <<tax_brackets, taxable_arg, tax_ret, input, locals, est_ret,
                   config, se_args, se_ret, validate_ret, round_arg, round_again,
                   reg_vars, load_vars, conc_vars>>

\* the result of the first call is rounded again
RoundAgain ==
    /\ pc = "done"
    /\ round_again' = round_half_up(round_ret)
    /\ pc' = "again"
    /\ UNCHANGED <<tax_brackets, taxable_arg, tax_ret, input, locals, est_ret,
                   config, se_args, se_ret, validate_ret, round_arg, round_ret,
                   reg_vars, load_vars, conc_vars>>

NextRound == Round \/ RoundAgain

SpecRound == InitRound /\ [][NextRound]_vars

----------------------------------------------------------------------------
(* Claims about round_half_up *)

Rounded == pc \in {"done", "again"}

\* the value lies exactly half way between two multiples of 0.01
OnMidpoint(v) == Abs(v) % CENT = HalfCent

\* C17: the result of round_half_up is a multiple of 0.01 no further than
\* 0.005 from the value; a value on a midpoint x.xx5 is moved away from zero,
\* whatever its sign; rounding the negated value gives the negated result.
C17_TiesAwayFromZero ==
    Rounded =>
        /\ IsCentExact(round_ret)
        /\ Abs(round_ret - round_arg) <= HalfCent
        /\ OnMidpoint(round_arg) => Abs(round_ret) > Abs(round_arg)
        /\ round_half_up(0 - round_arg) = 0 - round_ret

\* -123.455 is rounded to -123.46
C17_Witness ==
    /\ Rounded
    /\ round_arg = 0 - (ExampleAmount + HalfCent)
    /\ round_ret = 0 - (ExampleAmount + Cents(1))

\* 123.454 is rounded to 123.45
C17_WitnessBelow ==
    /\ Rounded
    /\ round_arg = ExampleAmount + FourMills
    /\ round_ret = ExampleAmount

\* C18: rounding a rounded value changes nothing, and a value with at most two
\* decimal places is its own rounding.
C18_Idempotent ==
    /\ pc = "again" => round_again = round_ret
    /\ (Rounded /\ IsCentExact(round_arg)) => round_ret = round_arg

\* a value that the first rounding moved and the second did not
C18_Witness ==
    /\ pc = "again"
    /\ round_ret # round_arg
    /\ round_again = round_ret

\* a negative value with two decimal places
C18_WitnessExact ==
    /\ pc = "again"
    /\ round_arg < 0 /\ round_arg % (10 * CENT) # 0
    /\ IsCentExact(round_arg)
    /\ round_again = round_arg

----------------------------------------------------------------------------
(* Claims about the amounts of SeWorksheet::calculate *)

\* C19: with a valid configuration every monetary field of the result is an
\* exact multiple of 0.01, also when the inputs and the configuration carry
\* more than two decimal places.
C19_CentExactResult ==
    SeDone =>
        /\ se_ret.tag = "Ok"
        /\ IsCentExact(se_ret.combined_se_income)
        /\ IsCentExact(se_ret.net_earnings)
        /\ IsCentExact(se_ret.medicare_tax)
        /\ IsCentExact(se_ret.ss_taxable_earnings)
        /\ IsCentExact(se_ret.social_security_tax)
        /\ IsCentExact(se_ret.self_employment_tax)
        /\ IsCentExact(se_ret.se_tax_deduction)

\* income, wages and wage base all carry a third decimal, and the remaining
\* wage base caps the taxable earnings
C19_Witness ==
    /\ SeDone
    /\ ~se_ret.below_threshold
    /\ ~IsCentExact(se_args.se_income)
    /\ ~IsCentExact(se_args.wages)
    /\ ~IsCentExact(config.ss_wage_max)
    /\ se_ret.ss_taxable_earnings > 0
    /\ se_ret.ss_taxable_earnings < se_ret.net_earnings
    /\ se_ret.se_tax_deduction > 0

\* the valid wage bases of the model's configurations
WageBases == { c.ss_wage_max : c \in { d \in AllConfigs : d.ss_wage_max > 0 } }

\* what calculate returns with other wages and another wage base
C20_Other(wm, wages) ==
    se_calculate([config EXCEPT !.ss_wage_max = wm],
                 se_args.se_income, se_args.crp_payments, wages)

\* C20: with a valid configuration and fixed se_income and crp_payments,
\* combined_se_income, net_earnings, medicare_tax and below_threshold are the
\* same for every wages and every ss_wage_max.
C20_MedicareUncapped ==
    SeDone =>
        \A wm \in WageBases, wages \in WageValues :
            /\ C20_Other(wm, wages).tag = "Ok"
            /\ C20_Other(wm, wages).combined_se_income = se_ret.combined_se_income
            /\ C20_Other(wm, wages).net_earnings = se_ret.net_earnings
            /\ C20_Other(wm, wages).medicare_tax = se_ret.medicare_tax
            /\ C20_Other(wm, wages).below_threshold = se_ret.below_threshold

\* net earnings above the wage base are taxed for Medicare in full, and
\* wages that use up the base change the other taxes only
C20_Witness ==
    /\ SeDone
    /\ se_args.wages = 0
    /\ se_ret.net_earnings > config.ss_wage_max
    /\ se_ret.medicare_tax =
          round_half_up(Mul(se_ret.net_earnings, config.medicare_tax_rate))
    /\ se_ret.medicare_tax > 0
    /\ \E wages \in WageValues :
          /\ C20_Other(config.ss_wage_max, wages).social_security_tax = 0
          /\ se_ret.social_security_tax > 0
          /\ C20_Other(config.ss_wage_max, wages).self_employment_tax
                = se_ret.medicare_tax
          /\ C20_Other(config.ss_wage_max, wages).se_tax_deduction
                < se_ret.se_tax_deduction

----------------------------------------------------------------------------
(* Claims about the error validate reports *)

\* the fields in the order validate looks at them, and the error of each
CheckOrder ==
    <<"net_earnings_factor", "ss_tax_rate", "medicare_tax_rate",
      "deduction_factor", "ss_wage_max", "min_se_threshold">>
VariantOrder ==
    <<"InvalidNetEarningsFactor", "InvalidSocialSecurityRate",
      "InvalidMedicareRate", "InvalidDeductionFactor", "InvalidSsWageMax",
      "InvalidMinSeThreshold">>

\* field number i of the configuration lies outside its documented range
OutOfRange(c, i) ==
    ~DocumentedValid([BaseConfig EXCEPT ![CheckOrder[i]] = c[CheckOrder[i]]])

FieldsOutOfRange(c) == { i \in 1..Len(CheckOrder) : OutOfRange(c, i) }

\* C25: validate reports one error, that of the first field in the order
\* net_earnings_factor, ss_tax_rate, medicare_tax_rate, deduction_factor,
\* ss_wage_max, min_se_threshold that is out of range, with that field's value
\* as payload; calculate returns the same error for every income and wages.
C25_FirstFailingCheck ==
    pc = "done" =>
        \A i \in FieldsOutOfRange(config) :
            (\A j \in FieldsOutOfRange(config) : i <= j) =>
                /\ validate_ret = SeErr(VariantOrder[i], config[CheckOrder[i]])
                /\ \A a \in SeArgs :
                      se_calculate(config, a.se_income, a.crp_payments, a.wages)
                          = validate_ret

\* three fields are out of range and the error is that of the first of them,
\* which is neither the first nor the last field checked
C25_Witness ==
    /\ pc = "done"
    /\ FieldsOutOfRange(config) = {3, 5, 6}
    /\ validate_ret = SeErr("InvalidMedicareRate", config.medicare_tax_rate)

----------------------------------------------------------------------------
(* db/factory.rs: RepositoryRegistry *)

\* the variables of the calculators
calc_vars ==
    <<tax_brackets, taxable_arg, tax_ret, input, locals, est_ret,
      config, se_args, se_ret, validate_ret, round_vars>>

\* no calculator takes part in the run
CalcIdle ==
    /\ tax_brackets = <<>> /\ taxable_arg = NONE /\ tax_ret = NONE
    /\ input = NONE /\ locals = NONE /\ est_ret = NONE
    /\ config = NONE /\ se_args = NONE /\ se_ret = NONE /\ validate_ret = NONE
    /\ RoundIdle

\* the backend names of the model in the order of str::cmp
BackendNames == <<"mysql", "postgres", "sqlite">>
\* a name no factory carries
UnknownBackend == "nope"

\* str::cmp on backend names: the position in the alphabet
Rank(name) == CHOOSE i \in 1..Len(BackendNames) : BackendNames[i] = name

\* a factory object: its identity and what backend_name() returns
Factory(id, name) == [id |-> id, backend_name |-> name]

\* HashMap::new
EmptyMap == [n \in {BackendNames[i] : i \in 1..Len(BackendNames)} |-> None]

\* HashMap::keys
keys(map) == { n \in DOMAIN map : map[n] # None }

\* a register that keeps the factory already present
register_KeepFirst(map, factory) ==
    IF map[factory.backend_name] # None THEN map
    ELSE [map EXCEPT ![factory.backend_name] = Some(factory.id)]

\* RepositoryRegistry::register: HashMap::insert
register(map, factory) ==
    [map EXCEPT ![factory.backend_name] = Some(factory.id)]

\* every order in which the keys of a HashMap can be iterated
Orders(S) ==
    { o \in [1..Cardinality(S) -> S] :
        \A i, j \in 1..Cardinality(S) : i # j => o[i] # o[j] }

RECURSIVE InsertSorted(_, _)
InsertSorted(name, sorted) ==
    IF sorted = <<>> THEN <<name>>
    ELSE IF Rank(name) <= Rank(Head(sorted)) THEN <<name>> \o sorted
    ELSE <<Head(sorted)>> \o InsertSorted(name, Tail(sorted))

RECURSIVE sort_unstable(_)
\* Vec::sort_unstable on names
sort_unstable(names) ==
    IF names = <<>> THEN <<>>
    ELSE InsertSorted(Head(names), sort_unstable(Tail(names)))

\* available_backends without the sort
available_backends_Unsorted(collected) == collected

\* RepositoryRegistry::available_backends, on the keys as collected
available_backends(collected) == sort_unstable(collected)

\* RepositoryError::Configuration; the message names the backend asked for
\* and the available ones
Configuration(backend, available) ==
    [tag |-> "Configuration", backend |-> backend, available |-> available,
     invoked |-> {}]

\* RepositoryRegistry::create: the factory under config.backend is asked,
\* and what it returns (a repository or its own error) is passed on
create(map, backend, collected, factory_ok) ==
    IF backend \notin keys(map)
    THEN Configuration(backend, available_backends(collected))
    ELSE [tag |-> IF factory_ok THEN "Ok" ELSE "FactoryError",
          backend |-> backend, invoked |-> {unwrap(map[backend])}]

\* most registrations of one run
MaxRegistrations == 3

InitRegistry ==
    /\ pc = "new"
    /\ factories = EmptyMap
    /\ registered = <<>>
    /\ reg_ret = NONE
    /\ CalcIdle /\ LoaderIdle /\ ThreadsIdle

Register ==
    /\ Len(registered) < MaxRegistrations
    /\ \E name \in DOMAIN factories :
          LET factory == Factory(Len(registered) + 1, name) IN
          /\ factories' = register(factories, factory)
          /\ registered' = Append(registered, factory)
    /\ reg_ret' = OkUnit
    /\ pc' = "register"
    /\ UNCHANGED <<calc_vars, load_vars, conc_vars>>

AvailableBackends ==
    /\ \E collected \in Orders(keys(factories)) :
          reg_ret' = available_backends(collected)
    /\ pc' = "available_backends"
    /\ UNCHANGED <<factories, registered, calc_vars, load_vars, conc_vars>>

Create ==
    /\ \E backend \in DOMAIN factories \cup {UnknownBackend},
          collected \in Orders(keys(factories)),
          factory_ok \in BOOLEAN :
          reg_ret' = create(factories, backend, collected, factory_ok)
    /\ pc' = "create"
    /\ UNCHANGED <<factories, registered, calc_vars, load_vars, conc_vars>>

NextRegistry == Register \/ AvailableBackends \/ Create

SpecRegistry == InitRegistry /\ [][NextRegistry]_vars

----------------------------------------------------------------------------
(* Claims about RepositoryRegistry *)

RegisteredNames == { registered[i].backend_name : i \in 1..Len(registered) }

\* the factory registered last under the name
LastRegistered(name) ==
    LET last == CHOOSE i \in 1..Len(registered) :
                    /\ registered[i].backend_name = name
                    /\ \A j \in (i + 1)..Len(registered) :
                          registered[j].backend_name # name
    IN  registered[last].id

\* the sequence holds each name of the set once, in alphabetical order
SortedListOf(seq, names) ==
    /\ Len(seq) = Cardinality(names)
    /\ { seq[i] : i \in 1..Len(seq) } = names
    /\ \A i \in 1..(Len(seq) - 1) : Rank(seq[i]) < Rank(seq[i + 1])

\* C24: available_backends returns the distinct registered names, each once,
\* in alphabetical order; create for a registered name invokes the factory
\* registered last under it and no other; create for any other name returns
\* Configuration and invokes no factory.
C24_Registry ==
    /\ pc = "available_backends" => SortedListOf(reg_ret, RegisteredNames)
    /\ pc = "create" =>
          IF reg_ret.backend \in RegisteredNames
          THEN /\ reg_ret.tag # "Configuration"
               /\ reg_ret.invoked = {LastRegistered(reg_ret.backend)}
          ELSE /\ reg_ret.tag = "Configuration"
               /\ reg_ret.invoked = {}
               /\ SortedListOf(reg_ret.available, RegisteredNames)

\* sqlite, postgres and sqlite again have been registered: two names are
\* listed, postgres first
C24_Witness ==
    /\ pc = "available_backends"
    /\ Len(registered) = 3
    /\ registered[1].backend_name = "sqlite"
    /\ registered[2].backend_name = "postgres"
    /\ registered[3].backend_name = "sqlite"
    /\ reg_ret = <<"postgres", "sqlite">>

\* create reaches the second of two factories registered under one name
C24_WitnessReplaced ==
    /\ pc = "create"
    /\ Len(registered) = 2
    /\ registered[1].backend_name = registered[2].backend_name
    /\ reg_ret.tag = "Ok" /\ reg_ret.invoked = {2}

\* create for a name that was never registered, with others registered
C24_WitnessUnknown ==
    /\ pc = "create"
    /\ registered # <<>>
    /\ reg_ret.tag = "Configuration" /\ reg_ret.backend = UnknownBackend

----------------------------------------------------------------------------
(* Claims about calculate on well-formed slices *)

\* the slice is ascending, starts at 0, each bracket ends where the next
\* begins, and only the last bracket has no max_income
PartitionInvariant(brackets) ==
    /\ Len(brackets) > 0
    /\ brackets[1].min_income = 0
    /\ brackets[Len(brackets)].max_income = None
    /\ \A i \in 1..(Len(brackets) - 1) :
          /\ brackets[i].max_income # None
          /\ brackets[i].max_income[1] = brackets[i + 1].min_income
          /\ brackets[i].min_income < brackets[i + 1].min_income

\* C27: on a slice that satisfies the TaxBracket invariant calculate returns
\* no error, and a positive taxable income lies in exactly one bracket.
C27_NoErrorOnPartition ==
    (pc = "done" /\ input # NONE /\ PartitionInvariant(tax_brackets)) =>
        /\ est_ret.tag = "Ok"
        /\ InputTaxable > 0 =>
              Cardinality({ i \in 1..Len(tax_brackets) :
                              InRange(tax_brackets[i], InputTaxable) }) = 1

\* the taxable income lies on the boundary between the first two brackets
C27_Witness ==
    /\ pc = "done" /\ input # NONE
    /\ PartitionInvariant(tax_brackets)
    /\ Len(tax_brackets) = 3
    /\ InputTaxable = tax_brackets[2].min_income
    /\ est_ret.tag = "Ok"
    /\ est_ret.taxable_income = InputTaxable

\* the taxable income lies above the last boundary, in the unbounded bracket
C27_WitnessTop ==
    /\ pc = "done" /\ input # NONE
    /\ PartitionInvariant(tax_brackets)
    /\ Len(tax_brackets) = 3
    /\ InputTaxable > tax_brackets[3].min_income
    /\ est_ret.tag = "Ok"

----------------------------------------------------------------------------
(* Claims about withholding in EstimatedTaxWorksheet::calculate *)

\* C29: when the prior-year tax is at most the withholding, underpayment is 0
\* and no estimated payments are required, whatever the current-year tax and
\* the threshold are; estimated payments are required only with a positive
\* underpayment and a required annual payment above the withholding.
C29_PriorYearSafeHarbour ==
    EstOk =>
        /\ input.prior_year_tax <= input.withholding =>
              /\ est_ret.underpayment = 0
              /\ ~est_ret.estimated_payments_required
        /\ est_ret.estimated_payments_required =>
              /\ est_ret.underpayment > 0
              /\ est_ret.required_annual_payment > input.withholding

\* a positive prior-year tax just below the withholding, and a current-year
\* tax that exceeds the withholding by more than the threshold
C29_Witness ==
    /\ EstOk
    /\ input.prior_year_tax > 0
    /\ input.prior_year_tax < input.withholding
    /\ locals.current_year_factor > input.withholding
    /\ input.required_payment_threshold > 0
    /\ locals.threshold_amount > input.required_payment_threshold
    /\ est_ret.underpayment = 0
    /\ ~est_ret.estimated_payments_required

\* payments are required: the prior-year tax exceeds the withholding
C29_WitnessRequired ==
    /\ EstOk
    /\ est_ret.estimated_payments_required
    /\ input.withholding > 0
    /\ est_ret.required_annual_payment = input.prior_year_tax

\* the withholdings a second call is made with
WithholdingValues ==
    {0 - Cents(45), 0, Cents(45), Cents(50) + HalfCent, Dollars(1), Dollars(20)}

\* what calculate returns for the same input with another withholding
C30_With(w) == calculate(tax_brackets, [input EXCEPT !.withholding = w]).ret

\* C30: with a larger withholding and everything else the same, underpayment
\* is no larger, estimated payments are required only if they were required
\* before, and every other field of the result is the same.
C30_WithholdingMonotone ==
    EstOk =>
        \A w \in WithholdingValues :
            w >= input.withholding =>
                \A other \in {C30_With(w)} :
                    /\ other.tag = "Ok"
                    /\ other.underpayment <= est_ret.underpayment
                    /\ other.estimated_payments_required
                          => est_ret.estimated_payments_required
                    /\ other.taxable_income = est_ret.taxable_income
                    /\ other.calculated_tax = est_ret.calculated_tax
                    /\ other.total_estimated_tax = est_ret.total_estimated_tax
                    /\ other.required_annual_payment = est_ret.required_annual_payment
                    /\ other.used_itemized_deduction = est_ret.used_itemized_deduction

\* a larger withholding lowers a positive underpayment without removing it,
\* and a still larger one removes it and the requirement to pay
C30_Witness ==
    /\ EstOk
    /\ est_ret.estimated_payments_required
    /\ \E w1, w2 \in WithholdingValues :
          /\ input.withholding < w1 /\ w1 < w2
          /\ C30_With(w1).underpayment > 0
          /\ C30_With(w1).underpayment < est_ret.underpayment
          /\ C30_With(w1).estimated_payments_required
          /\ C30_With(w2).underpayment = 0
          /\ ~C30_With(w2).estimated_payments_required

----------------------------------------------------------------------------
(* Claims about the signs and order of the SE worksheet lines *)

\* C28: with a valid configuration every amount of the result other than
\* combined_se_income is >= 0; when the income is above the threshold,
\* 0 <= ss_taxable_earnings <= net_earnings <= combined_se_income and
\* 0 <= se_tax_deduction <= self_employment_tax = medicare_tax +
\* social_security_tax, and the net earnings calculate computes are >= 0.
C28_SeLinesOrdered ==
    SeDone =>
        /\ se_ret.tag = "Ok"
        /\ se_ret.net_earnings >= 0
        /\ se_ret.medicare_tax >= 0
        /\ se_ret.ss_taxable_earnings >= 0
        /\ se_ret.social_security_tax >= 0
        /\ se_ret.self_employment_tax >= 0
        /\ se_ret.se_tax_deduction >= 0
        /\ ~se_ret.below_threshold =>
              /\ se_ret.ss_taxable_earnings <= se_ret.net_earnings
              /\ se_ret.net_earnings <= se_ret.combined_se_income
              /\ se_ret.se_tax_deduction <= se_ret.self_employment_tax
              /\ se_ret.self_employment_tax =
                    se_ret.medicare_tax + se_ret.social_security_tax
              /\ net_earnings_from_self_employment(config, RoundedSum) >= 0

\* income above a threshold of zero whose net earnings round to zero: the
\* guards of medicare_tax and ss_taxable_earnings fire
C28_Witness ==
    /\ SeDone
    /\ ~se_ret.below_threshold
    /\ se_ret.combined_se_income > 0
    /\ se_ret.net_earnings = 0
    /\ se_ret.self_employment_tax = 0

\* negative wages widen the base: net earnings above ss_wage_max are taxed
\* for social security in full
C28_WitnessNegative ==
    /\ SeDone
    /\ se_args.wages < 0
    /\ ~se_ret.below_threshold
    /\ se_ret.net_earnings > config.ss_wage_max
    /\ se_ret.ss_taxable_earnings = se_ret.net_earnings

----------------------------------------------------------------------------
(* tax-data/src/loader.rs: TaxBracketLoader::load, and the repository calls
   it makes (tax-db-sqlite/src/repository.rs) *)

\* the id of each filing status code in the filing_status table
FilingStatusId(code) ==
    CASE code = "S" -> 1
      [] code = "MFJ" -> 2
      [] code = "MFS" -> 3
      [] code = "HOH" -> 4
      [] code = "QSS" -> 5

LoaderErr(variant, v) == [tag |-> variant, value |-> v]

\* a schedule mapping that leaves QSS out of schedule Y-1
schedule_to_filing_status_codes_NoQss(schedule) ==
    CASE schedule = "X" -> Ok(<<"S">>)
      [] schedule = "Y-1" -> Ok(<<"MFJ">>)
      [] schedule = "Y-2" -> Ok(<<"MFS">>)
      [] schedule = "Z" -> Ok(<<"HOH">>)
      [] OTHER -> LoaderErr("InvalidSchedule", schedule)

schedule_to_filing_status_codes(schedule) ==
    CASE schedule = "X" -> Ok(<<"S">>)
      [] schedule = "Y-1" -> Ok(<<"MFJ", "QSS">>)
      [] schedule = "Y-2" -> Ok(<<"MFS">>)
      [] schedule = "Z" -> Ok(<<"HOH">>)
      [] OTHER -> LoaderErr("InvalidSchedule", schedule)

\* TaxBracketRecord
Record(year, schedule, lo, hi, base, rate) ==
    [tax_year |-> year, schedule |-> schedule, min_income |-> lo,
     max_income |-> hi, base_tax |-> base, rate |-> rate]

\* decimal_to_f64: the REAL that is bound in place of the Decimal
decimal_to_f64(d) == [f64 |-> d]

\* a row of tax_brackets as insert_tax_bracket binds it
Row(bracket) ==
    [tax_year |-> bracket.tax_year,
     filing_status_id |-> bracket.filing_status_id,
     min_income |-> decimal_to_f64(bracket.min_income),
     max_income |-> IF is_none(bracket.max_income) THEN None
                    ELSE Some(decimal_to_f64(unwrap(bracket.max_income))),
     tax_rate |-> decimal_to_f64(bracket.tax_rate),
     base_tax |-> decimal_to_f64(bracket.base_tax)]

\* the TaxBracket load builds from a record and a filing status id
BracketOf(record, id) ==
    [tax_year |-> record.tax_year, filing_status_id |-> id,
     min_income |-> record.min_income, max_income |-> record.max_income,
     tax_rate |-> record.rate, base_tax |-> record.base_tax]

\* SELECT .. FROM filing_status WHERE status_code = ?
get_filing_status_by_code(db, code) ==
    IF code \in db.filing_status THEN Ok(FilingStatusId(code))
    ELSE [tag |-> "NotFound"]

\* the rows of one year and filing status, in rowid order
RowsOf(table, year, id) ==
    SelectSeq(table, LAMBDA row : row.tax_year = year /\ row.filing_status_id = id)

\* a delete that removes nothing
delete_tax_brackets_Nothing(table, year, id) == table

\* DELETE FROM tax_brackets WHERE tax_year = ? AND filing_status_id = ?
delete_tax_brackets(table, year, id) ==
    SelectSeq(table, LAMBDA row : ~(row.tax_year = year /\ row.filing_status_id = id))

\* INSERT INTO tax_brackets: the foreign key on tax_year is enforced
insert_tax_bracket(db, bracket) ==
    IF bracket.tax_year \notin db.tax_year_config
    THEN [tag |-> "Database", value |-> "FOREIGN KEY constraint failed"]
    ELSE Ok(Append(db.tax_brackets, Row(bracket)))

\* the keys of the groups load builds
GroupKeys(recs) == { <<recs[i].tax_year, recs[i].schedule>> : i \in 1..Len(recs) }

\* the records of one group, in the order of the slice
GroupRecords(recs, key) ==
    SelectSeq(recs, LAMBDA r : r.tax_year = key[1] /\ r.schedule = key[2])

\* RepositoryError::Database from a call that failed on its own
DatabaseFault == LoaderErr("Repository", "Database")
\* longest record slice of a load
MaxRecords == 3
\* most repository calls of one run that fail on their own
MaxFaults == 1

\* the years of the model
LoadedYear == 2025
OtherYear == 2024

\* records of two brackets of schedule X and one of Y-1 for the loaded year,
\* one with a schedule code that does not exist, one for the other year
RecordPool ==
    { Record(LoadedYear, "X", 0, Some(Dollars(2)), 0, Cents(10)),
      Record(LoadedYear, "X", Dollars(2), None, Cents(20), Cents(20)),
      Record(LoadedYear, "Y-1", 0, None, 0, Cents(10)),
      Record(LoadedYear, "INVALID", 0, None, 0, Cents(10)),
      Record(OtherYear, "X", 0, None, 0, Cents(10)) }

RecordSlices == SeqsUpTo(RecordPool, MaxRecords)

\* rows present before the load: an outdated bracket for each filing status
\* of both years
OldRows ==
    << Row(BracketOf(Record(LoadedYear, "X", 0, Some(Dollars(5)), 0, Cents(5)), 1)),
       Row(BracketOf(Record(OtherYear, "X", 0, Some(Dollars(11)), 0, Cents(10)), 1)),
       Row(BracketOf(Record(LoadedYear, "Y-1", 0, Some(Dollars(5)), 0, Cents(5)), 2)),
       Row(BracketOf(Record(LoadedYear, "Y-1", 0, Some(Dollars(5)), 0, Cents(5)), 5)),
       Row(BracketOf(Record(LoadedYear, "Z", 0, Some(Dollars(5)), 0, Cents(5)), 4)) >>

\* the repositories a load starts on: with all filing statuses or without
\* QSS, with both years configured or only the other year, with the old rows
\* that the foreign keys of tax_brackets admit or with none
Repositories ==
    { [filing_status |-> fs, tax_year_config |-> ys,
       tax_brackets |->
           IF old
           THEN SelectSeq(OldRows, LAMBDA row :
                    /\ row.tax_year \in ys
                    /\ \E code \in fs : FilingStatusId(code) = row.filing_status_id)
           ELSE <<>>] :
        fs \in {{"S", "MFJ", "MFS", "HOH", "QSS"}, {"S", "MFJ", "MFS", "HOH"}},
        ys \in {{OtherYear, LoadedYear}, {OtherYear}},
        old \in BOOLEAN }

InitLoad ==
    /\ pc = "ready"
    /\ records \in RecordSlices
    /\ repo \in Repositories
    /\ load_locals = NONE
    /\ load_ret = NONE
    /\ faults = 0
    /\ load_log = [run |-> 1, before |-> repo.tax_brackets,
                   first_ret |-> NONE, first_after |-> <<>>]
    /\ CalcIdle /\ RegistryIdle /\ ThreadsIdle

\* load returns: the value, and nothing else changes
Return(value) ==
    /\ load_ret' = value
    /\ pc' = "returned"

\* a repository call fails on its own and load passes the error on
CallFails ==
    /\ faults < MaxFaults
    /\ faults' = faults + 1
    /\ Return(DatabaseFault)
    /\ UNCHANGED <<records, repo, load_locals, load_log>>

\* the records are grouped by (tax_year, schedule)
LoadBegin ==
    /\ pc = "ready"
    /\ load_locals' = [pending |-> GroupKeys(records), key |-> <<>>,
                       codes |-> <<>>, id |-> 0, idx |-> 0, inserted |-> 0]
    /\ pc' = "groups"
    /\ UNCHANGED <<records, repo, load_ret, faults, load_log>>

\* the outer loop takes the next group, in the HashMap's order, and maps its
\* schedule; after the last group load returns the count
NextGroup ==
    /\ pc = "groups"
    /\ IF load_locals.pending = {}
       THEN /\ Return(Ok(load_locals.inserted))
            /\ UNCHANGED load_locals
       ELSE \E key \in load_locals.pending :
              LET mapped == schedule_to_filing_status_codes(key[2]) IN
              IF mapped.tag # "Ok"
              THEN Return(mapped) /\ UNCHANGED load_locals
              ELSE /\ load_locals' =
                        [load_locals EXCEPT !.pending = @ \ {key}, !.key = key,
                                            !.codes = mapped.value]
                   /\ pc' = "codes"
                   /\ UNCHANGED load_ret
    /\ UNCHANGED <<records, repo, faults, load_log>>

\* the middle loop looks the next filing status code up
LookupStatus ==
    /\ pc = "codes"
    /\ IF load_locals.codes = <<>>
       THEN /\ pc' = "groups"
            /\ UNCHANGED <<records, repo, load_locals, load_ret, faults, load_log>>
       ELSE \/ LET status == get_filing_status_by_code(repo, Head(load_locals.codes)) IN
               /\ IF status.tag = "NotFound"
                  THEN /\ Return(LoaderErr("FilingStatusNotFound",
                                           Head(load_locals.codes)))
                       /\ UNCHANGED load_locals
                  ELSE /\ load_locals' = [load_locals EXCEPT !.id = status.value]
                       /\ pc' = "delete"
                       /\ UNCHANGED load_ret
               /\ UNCHANGED <<records, repo, faults, load_log>>
            \/ CallFails

\* the brackets of the year and filing status are deleted
DeleteBrackets ==
    /\ pc = "delete"
    /\ \/ /\ repo' = [repo EXCEPT !.tax_brackets =
                         delete_tax_brackets(@, load_locals.key[1], load_locals.id)]
          /\ load_locals' = [load_locals EXCEPT !.idx = 1]
          /\ pc' = "insert"
          /\ UNCHANGED <<records, load_ret, faults, load_log>>
       \/ CallFails

\* the inner loop inserts the next record of the group
InsertBracket ==
    /\ pc = "insert"
    /\ LET group_records == GroupRecords(records, load_locals.key) IN
       IF load_locals.idx > Len(group_records)
       THEN /\ load_locals' = [load_locals EXCEPT !.codes = Tail(@)]
            /\ pc' = "codes"
            /\ UNCHANGED <<records, repo, load_ret, faults, load_log>>
       ELSE \/ LET record == group_records[load_locals.idx]
                   done == insert_tax_bracket(repo, BracketOf(record, load_locals.id))
               IN  /\ IF done.tag # "Ok"
                      THEN /\ Return(LoaderErr("TaxYearNotFound", record.tax_year))
                           /\ UNCHANGED <<repo, load_locals>>
                      ELSE /\ repo' = [repo EXCEPT !.tax_brackets = done.value]
                           /\ load_locals' =
                                 [load_locals EXCEPT !.idx = @ + 1,
                                                     !.inserted = @ + 1]
                           /\ UNCHANGED <<pc, load_ret>>
                   /\ UNCHANGED <<records, faults, load_log>>
            \/ CallFails

\* after a successful load, load is called again with the same records
LoadAgain ==
    /\ pc = "returned"
    /\ load_log.run = 1
    /\ load_ret.tag = "Ok"
    /\ load_log' = [run |-> 2, before |-> repo.tax_brackets,
                    first_ret |-> load_ret, first_after |-> repo.tax_brackets]
    /\ load_ret' = NONE
    /\ load_locals' = NONE
    /\ pc' = "ready"
    /\ UNCHANGED <<records, repo, faults>>

NextLoad ==
    /\ \/ LoadBegin \/ NextGroup \/ LookupStatus \/ DeleteBrackets
       \/ InsertBracket \/ LoadAgain
    /\ UNCHANGED <<calc_vars, reg_vars, conc_vars>>

SpecLoad == InitLoad /\ [][NextLoad]_vars

----------------------------------------------------------------------------
(* Claims about TaxBracketLoader::load *)

\* the filing status ids a schedule code names: X is Single, Y-1 is MFJ and
\* QSS, Y-2 is MFS, Z is HOH
ScheduleStatusIds(schedule) ==
    CASE schedule = "X" -> {1}
      [] schedule = "Y-1" -> {2, 5}
      [] schedule = "Y-2" -> {3}
      [] schedule = "Z" -> {4}
      [] OTHER -> {}

\* every (tax_year, filing status id) pair of the model
AllPairs == {OtherYear, LoadedYear} \X (1..5)

\* the records that name the pair
NamingRecords(recs, year, id) ==
    SelectSeq(recs, LAMBDA r : r.tax_year = year /\ id \in ScheduleStatusIds(r.schedule))

\* the complete new set of the pair: a row for each record that names it
NewRows(recs, year, id) ==
    [i \in 1..Len(NamingRecords(recs, year, id)) |->
        Row(BracketOf(NamingRecords(recs, year, id)[i], id))]

\* C22: when load has succeeded and is run again with the same records on
\* the same repository, the stored brackets of every (tax_year, filing status)
\* are as the first run left them and the same count is returned.
C22_LoadIdempotent ==
    (pc = "returned" /\ load_log.run = 2 /\ faults = 0) =>
        /\ load_ret = load_log.first_ret
        /\ \A pair \in AllPairs :
              RowsOf(repo.tax_brackets, pair[1], pair[2])
                  = RowsOf(load_log.first_after, pair[1], pair[2])

\* the second run of a load of two X records and a Y-1 record returns 4 and
\* leaves two rows for Single
C22_Witness ==
    /\ pc = "returned" /\ load_log.run = 2 /\ faults = 0
    /\ Len(records) = 3
    /\ load_ret = Ok(4)
    /\ Len(RowsOf(repo.tax_brackets, LoadedYear, 1)) = 2
    /\ Len(RowsOf(repo.tax_brackets, LoadedYear, 5)) = 1

\* C23: after a successful load the stored brackets of every pair the records
\* name (Y-1 naming both MFJ and QSS) are the rows of those records and no
\* others, and the stored brackets of every other pair are as before.
C23_LoadReplaces ==
    (pc = "returned" /\ load_ret.tag = "Ok") =>
        \A pair \in AllPairs :
            RowsOf(repo.tax_brackets, pair[1], pair[2]) =
                IF NamingRecords(records, pair[1], pair[2]) # <<>>
                THEN NewRows(records, pair[1], pair[2])
                ELSE RowsOf(load_log.before, pair[1], pair[2])

\* old rows of Single, MFJ and QSS are replaced by the rows of the X and Y-1
\* records, and the old rows of the other year and of HOH are still there
C23_Witness ==
    /\ pc = "returned" /\ load_ret.tag = "Ok" /\ load_log.run = 1
    /\ \A id \in {1, 2, 5} :
          /\ RowsOf(load_log.before, LoadedYear, id) # <<>>
          /\ RowsOf(repo.tax_brackets, LoadedYear, id) = NewRows(records, LoadedYear, id)
          /\ RowsOf(repo.tax_brackets, LoadedYear, id)
                # RowsOf(load_log.before, LoadedYear, id)
    /\ Len(RowsOf(repo.tax_brackets, LoadedYear, 1)) = 2
    /\ RowsOf(repo.tax_brackets, OtherYear, 1) # <<>>
    /\ RowsOf(repo.tax_brackets, OtherYear, 1) = RowsOf(load_log.before, OtherYear, 1)
    /\ RowsOf(repo.tax_brackets, LoadedYear, 4) # <<>>

\* C26: whenever load returns, with Ok or with an error, the stored brackets
\* of every (tax_year, filing status) pair are either the set stored before
\* the call or the complete new set of the records.
C26_AtomicGroups ==
    pc = "returned" =>
        \A pair \in AllPairs :
            \/ RowsOf(repo.tax_brackets, pair[1], pair[2])
                  = RowsOf(load_log.before, pair[1], pair[2])
            \/ RowsOf(repo.tax_brackets, pair[1], pair[2])
                  = NewRows(records, pair[1], pair[2])

----------------------------------------------------------------------------
(* Concurrent calls of the two calculate methods.  Both take &self and read
   the borrowed slice or the owned configuration; every let-binding lives in
   the frame of its own call.  One step of a thread is one statement of the
   body. *)

\* the callers that run at the same time
MaxThreads == 2
Threads == 1..MaxThreads

\* the statements of EstimatedTaxWorksheet::calculate, in order
EstStatements ==
    <<"is_empty", "deduction", "total_deductions", "taxable_income",
      "calculated_tax", "total_tax_before_credits", "tax_after_credits",
      "total_tax", "total_estimated_tax", "current_year_factor",
      "required_annual_payment", "underpayment", "threshold_amount",
      "estimated_payments_required", "Ok">>

\* the statements of SeWorksheet::calculate, in order
SeStatements ==
    <<"validate", "combined_income", "threshold", "net_earnings",
      "medicare_tax", "remaining_ss_base", "ss_taxable_earnings",
      "social_security_tax", "self_employment_tax", "se_tax_deduction", "Ok">>

\* the names a frame binds
FrameNames ==
    {EstStatements[i] : i \in 2..(Len(EstStatements) - 1)}
        \cup ({SeStatements[i] : i \in 2..(Len(SeStatements) - 1)} \ {"threshold"})

\* a frame in which no let has run
EmptyFrame == [n \in FrameNames |-> NONE]

\* frames that all calls share, as a static scratch area would be
frame_slot_Shared(t) == 1

\* the frame a call binds its lets in: its own
frame_slot(t) == t

\* the value one let of EstimatedTaxWorksheet::calculate binds, read from the
\* input, the slice and the names bound before it; `deduction` is the pair
\* (deduction, used_itemized), `calculated_tax` the Result before the ?
EstLet(f, brackets, in, stmt) ==
    CASE stmt = "deduction" ->
           determine_deduction(in.itemized_deduction, in.standard_deduction)
      [] stmt = "total_deductions" ->
           total_deductions(f["deduction"].deduction, in.qbi_deduction)
      [] stmt = "taxable_income" ->
           taxable_income(in.adjusted_gross_income, f["total_deductions"])
      [] stmt = "calculated_tax" ->
           calculate_tax(brackets, f["taxable_income"])
      [] stmt = "total_tax_before_credits" ->
           total_tax_before_credits(f["calculated_tax"], in.alternative_minimum_tax)
      [] stmt = "tax_after_credits" ->
           tax_after_credits(f["total_tax_before_credits"], in.credits)
      [] stmt = "total_tax" ->
           total_tax(f["tax_after_credits"], in.self_employment_tax, in.other_taxes)
      [] stmt = "total_estimated_tax" ->
           total_estimated_tax(f["total_tax"], in.refundable_credits)
      [] stmt = "current_year_factor" ->
           current_year_factor(f["total_estimated_tax"], in.is_farmer_or_fisher)
      [] stmt = "required_annual_payment" ->
           required_annual_payment(f["current_year_factor"], in.prior_year_tax)
      [] stmt = "underpayment" ->
           underpayment(f["required_annual_payment"], in.withholding)
      [] stmt = "threshold_amount" ->
           threshold_amount(f["total_estimated_tax"], in.withholding)
      [] stmt = "estimated_payments_required" ->
           are_estimated_payments_required(
               f["underpayment"], f["threshold_amount"],
               in.required_payment_threshold)

\* Ok(EstimatedTaxWorksheetResult { .. }) built from the names of a frame
EstOkFrom(f) ==
    EstResult([taxable_income |-> f["taxable_income"],
               calculated_tax |-> f["calculated_tax"],
               total_estimated_tax |-> f["total_estimated_tax"],
               required_annual_payment |-> f["required_annual_payment"],
               underpayment |-> f["underpayment"],
               used_itemized |-> f["deduction"].used_itemized,
               estimated_payments_required |-> f["estimated_payments_required"]])

\* the value one let of SeWorksheet::calculate binds
SeLet(f, c, a, stmt) ==
    CASE stmt = "combined_income" ->
           combined_se_income(a.se_income, a.crp_payments)
      [] stmt = "net_earnings" ->
           net_earnings_from_self_employment(c, f["combined_income"])
      [] stmt = "medicare_tax" -> medicare_tax(c, f["net_earnings"])
      [] stmt = "remaining_ss_base" -> remaining_ss_wage_base(c, a.wages)
      [] stmt = "ss_taxable_earnings" ->
           ss_taxable_earnings(f["net_earnings"], f["remaining_ss_base"])
      [] stmt = "social_security_tax" ->
           social_security_tax(c, f["ss_taxable_earnings"])
      [] stmt = "self_employment_tax" ->
           total_self_employment_tax(f["medicare_tax"], f["social_security_tax"])
      [] stmt = "se_tax_deduction" ->
           se_tax_deduction(c, f["self_employment_tax"])

\* Ok(SeWorksheetResult { .. }) built from the names of a frame
SeOkFrom(f) ==
    [tag |-> "Ok",
     combined_se_income |-> f["combined_income"],
     net_earnings |-> f["net_earnings"],
     medicare_tax |-> f["medicare_tax"],
     ss_taxable_earnings |-> f["ss_taxable_earnings"],
     social_security_tax |-> f["social_security_tax"],
     self_employment_tax |-> f["self_employment_tax"],
     se_tax_deduction |-> f["se_tax_deduction"],
     below_threshold |-> FALSE]

\* the inputs of the concurrent calls: two worksheets that differ in their
\* adjusted gross income, two SE incomes on either side of the threshold
ConcInputs ==
    { in \in EstInputsShort :
        /\ in.adjusted_gross_income \in {Dollars(3) + HalfCent, Dollars(6) + HalfCent}
        /\ in.itemized_deduction = 0 /\ in.standard_deduction = Dollars(1)
        /\ in.qbi_deduction = 0 }
ConcSeArgs ==
    { a \in SeArgs :
        /\ a.se_income \in {Dollars(4), Dollars(6)}
        /\ a.crp_payments = 0 /\ a.wages = 0 }
ConcCalls ==
    [kind : {"est"}, input : ConcInputs] \cup [kind : {"se"}, args : ConcSeArgs]

\* a configuration that validate rejects
RejectedConfig == [BaseConfig EXCEPT !.ss_tax_rate = Dollars(2)]

InitConc ==
    /\ pc = "threads"
    /\ RoundIdle /\ RegistryIdle /\ LoaderIdle
    /\ taxable_arg = NONE /\ tax_ret = NONE
    /\ input = NONE /\ locals = NONE /\ est_ret = NONE
    /\ se_args = NONE /\ se_ret = NONE /\ validate_ret = NONE
    /\ \/ tax_brackets = Schedule /\ config = BaseConfig
       \/ tax_brackets = GapSlice /\ config = BaseConfig
       \/ tax_brackets = <<>> /\ config = RejectedConfig
    /\ calls \in [Threads -> ConcCalls]
    /\ line = [t \in Threads |-> 1]
    /\ frames = [t \in Threads |-> EmptyFrame]
    /\ rets = [t \in Threads |-> NONE]

\* thread t is at statement stmt of a call of the given kind
At(t, kind, stmt) ==
    /\ calls[t].kind = kind
    /\ line[t] \in 1..Len(IF kind = "est" THEN EstStatements ELSE SeStatements)
    /\ (IF kind = "est" THEN EstStatements ELSE SeStatements)[line[t]] = stmt

\* the call of thread t returns value
ThreadReturn(t, value) ==
    /\ rets' = [rets EXCEPT ![t] = value]
    /\ line' = [line EXCEPT ![t] = 0]

\* thread t goes on to its next statement
ThreadGoOn(t) ==
    /\ line' = [line EXCEPT ![t] = @ + 1]
    /\ UNCHANGED rets

\* if self.tax_brackets.is_empty() { return Err(NoTaxBrackets) }
EstIsEmpty(t) ==
    /\ At(t, "est", "is_empty")
    /\ IF Len(tax_brackets) = 0
       THEN ThreadReturn(t, NoTaxBrackets)
       ELSE ThreadGoOn(t)
    /\ UNCHANGED frames

\* let calculated_tax = self.calculate_tax(taxable_income)?;
EstCalculateTax(t) ==
    /\ At(t, "est", "calculated_tax")
    /\ LET f == frames[frame_slot(t)]
           r == EstLet(f, tax_brackets, calls[t].input, "calculated_tax")
       IN  IF r.tag # "Ok"
           THEN ThreadReturn(t, NoMatchingBracket(r.income)) /\ UNCHANGED frames
           ELSE /\ frames' = [frames EXCEPT
                                 ![frame_slot(t)]["calculated_tax"] = r.value]
                /\ ThreadGoOn(t)

\* any other let of EstimatedTaxWorksheet::calculate
EstLetStep(t) ==
    /\ calls[t].kind = "est"
    /\ line[t] \in 2..(Len(EstStatements) - 1)
    /\ EstStatements[line[t]] # "calculated_tax"
    /\ LET stmt == EstStatements[line[t]]
           f == frames[frame_slot(t)]
       IN  frames' = [frames EXCEPT ![frame_slot(t)][stmt] =
                         EstLet(f, tax_brackets, calls[t].input, stmt)]
    /\ ThreadGoOn(t)

\* Ok(EstimatedTaxWorksheetResult { .. })
EstReturnOk(t) ==
    /\ At(t, "est", "Ok")
    /\ ThreadReturn(t, EstOkFrom(frames[frame_slot(t)]))
    /\ UNCHANGED frames

\* self.config.validate()?;
SeValidate(t) ==
    /\ At(t, "se", "validate")
    /\ IF validate(config).tag # "Ok"
       THEN ThreadReturn(t, validate(config))
       ELSE ThreadGoOn(t)
    /\ UNCHANGED frames

\* if combined_income <= self.config.min_se_threshold { return Ok(below_threshold) }
SeThreshold(t) ==
    /\ At(t, "se", "threshold")
    /\ LET combined == frames[frame_slot(t)]["combined_income"] IN
       IF AtOrBelowThreshold(config, combined)
       THEN ThreadReturn(t, below_threshold(combined))
       ELSE ThreadGoOn(t)
    /\ UNCHANGED frames

\* any let of SeWorksheet::calculate
SeLetStep(t) ==
    /\ calls[t].kind = "se"
    /\ line[t] \in 2..(Len(SeStatements) - 1)
    /\ SeStatements[line[t]] # "threshold"
    /\ LET stmt == SeStatements[line[t]]
           f == frames[frame_slot(t)]
       IN  frames' = [frames EXCEPT ![frame_slot(t)][stmt] =
                         SeLet(f, config, calls[t].args, stmt)]
    /\ ThreadGoOn(t)

\* Ok(SeWorksheetResult { .. })
SeReturnOk(t) ==
    /\ At(t, "se", "Ok")
    /\ ThreadReturn(t, SeOkFrom(frames[frame_slot(t)]))
    /\ UNCHANGED frames

EstThreadStep == \E t \in Threads : EstIsEmpty(t) \/ EstCalculateTax(t) \/ EstReturnOk(t)
EstThreadLet == \E t \in Threads : EstLetStep(t)
SeThreadStep == \E t \in Threads : SeValidate(t) \/ SeThreshold(t) \/ SeReturnOk(t)
SeThreadLet == \E t \in Threads : SeLetStep(t)

NextConc ==
    /\ \/ EstThreadStep \/ EstThreadLet \/ SeThreadStep \/ SeThreadLet
    /\ UNCHANGED <<pc, tax_brackets, taxable_arg, tax_ret, input, locals,
                   est_ret, config, se_args, se_ret, validate_ret, round_vars,
                   reg_vars, load_vars, calls>>

SpecConc == InitConc /\ [][NextConc]_vars

----------------------------------------------------------------------------
(* Claims about concurrent calls *)

\* what a call returns when it runs alone
Alone(call) ==
    IF call.kind = "est"
    THEN calculate(tax_brackets, call.input).ret
    ELSE se_calculate(config, call.args.se_income, call.args.crp_payments,
                      call.args.wages)

\* C21: under any interleaving of the statements of concurrent calculate
\* calls on one shared slice and one shared configuration, a call that returns
\* returns what it returns alone on its inputs (so equal inputs give equal
\* outputs), and no step changes the configuration, the slice or the inputs.
C21_PureUnderInterleaving ==
    [][ /\ \A t \in Threads :
              rets'[t] # NONE => rets'[t] = Alone(calls[t])
        /\ config' = config
        /\ tax_brackets' = tax_brackets
        /\ calls' = calls ]_vars

\* thread 1 has returned Ok from a worksheet while thread 2, on a different
\* adjusted gross income, is past its bracket lookup and has not returned
C21_Witness ==
    /\ pc = "threads"
    /\ calls[1].kind = "est" /\ calls[2].kind = "est"
    /\ calls[1].input # calls[2].input
    /\ rets[1] # NONE /\ rets[1].tag = "Ok"
    /\ rets[2] = NONE /\ line[2] > 5
    /\ frames[2]["calculated_tax"] # frames[1]["calculated_tax"]

\* an SE call has returned while a worksheet call on the same objects is
\* between two of its lets
C21_WitnessMixed ==
    /\ pc = "threads"
    /\ calls[1].kind = "se" /\ calls[2].kind = "est"
    /\ rets[1] # NONE /\ rets[1].tag = "Ok" /\ ~rets[1].below_threshold
    /\ rets[2] = NONE /\ line[2] = 8

====
